---------------------------- MODULE Spec2Model ----------------------------
(***************************************************************************)
(* State-machine model of the PDFmanager server: the role-scoped file      *)
(* routes (routes/files.js = src/unnamed/part_005), the user-management    *)
(* routes (routes/users.js = src/unnamed/part_003), registration           *)
(* (routes/auth.js = src/unnamed/part_004), the SQLite schema              *)
(* (config/db.js = src/unnamed/part_006) and the tag field of the client   *)
(* (src/src/TagInput.tsx).                                                 *)
(*                                                                         *)
(* Conventions                                                             *)
(*  - A text value is a tuple of one-character strings (<<"1","e","1">>),  *)
(*    so that parsing, LIKE matching and case folding are computed.        *)
(*  - A request handler is one action: its store calls run back to back.   *)
(*    A store call fails only when a constraint of the schema fails.       *)
(*    SpecConcurrent follows requests one store call at a time instead,    *)
(*    so that the calls of several requests interleave.                    *)
(*  - req.user is the {id, level} pair the auth middleware takes from the  *)
(*    token; the routes trust it and never re-read the users table.        *)
(*    SpecUsers follows the tokens that login and registration sign.  The  *)
(*    file routes read no user row, so SpecFiles takes a caller to be any  *)
(*    id and level a token can carry.                                      *)
(*  - A response is an output, not state: each handler has a Status (and,  *)
(*    where a property reads it, a Body) operator over its inputs and the  *)
(*    store, an Effect operator for the store it leaves, and an action     *)
(*    that installs the effect.                                            *)
(***************************************************************************)
EXTENDS Integers, Sequences, FiniteSets, TLC

(***************************************************************************)
(* Bounds of the model.                                                    *)
(***************************************************************************)
MaxCallerId == 2
MaxFileId == 2
MaxUserId == 10
MaxUsers == 2

MaxTokens == 1

MaxTagId == 3

MaxRequests == 2

MaxValueTags == 2

Levels == {"admin", "user", "viewer"}

(***************************************************************************)
(* Text helpers.                                                           *)
(***************************************************************************)
Digits == <<"0", "1", "2", "3", "4", "5", "6", "7", "8", "9">>

IsDigit(c) == \E i \in 1..10 : Digits[i] = c

DigitVal(c) == (CHOOSE i \in 1..10 : Digits[i] = c) - 1

UpperChars == <<"A", "B", "C", "D", "E", "F", "G", "H", "I", "J", "K", "L", "M",
                "N", "O", "P", "Q", "R", "S", "T", "U", "V", "W", "X", "Y", "Z">>

LowerChars == <<"a", "b", "c", "d", "e", "f", "g", "h", "i", "j", "k", "l", "m",
                "n", "o", "p", "q", "r", "s", "t", "u", "v", "w", "x", "y", "z">>

\* ASCII case folding of one character (String.prototype.toLowerCase, and
\* the folding SQLite's LIKE applies).
LowerChar(c) ==
  IF \E i \in 1..26 : UpperChars[i] = c
  THEN LowerChars[CHOOSE i \in 1..26 : UpperChars[i] = c]
  ELSE c

ToLowerCase(s) == [i \in 1..Len(s) |-> LowerChar(s[i])]

RECURSIVE Pow10(_)
Pow10(n) == IF n <= 0 THEN 1 ELSE 10 * Pow10(n - 1)

\* Value of the decimal digits s[a..b] (0 when the range is empty).
RECURSIVE DecVal(_, _, _)
DecVal(s, a, b) ==
  IF a > b THEN 0 ELSE DecVal(s, a, b - 1) * 10 + DigitVal(s[b])

\* First index >= i of s that holds no blank (Len(s)+1 when none).
RECURSIVE SkipWs(_, _)
SkipWs(s, i) ==
  IF i <= Len(s) /\ s[i] = " " THEN SkipWs(s, i + 1) ELSE i

\* First index >= i of s that holds no digit (Len(s)+1 when none).
RECURSIVE DigitsEnd(_, _)
DigitsEnd(s, i) ==
  IF i <= Len(s) /\ IsDigit(s[i]) THEN DigitsEnd(s, i + 1) ELSE i

IsSign(s, i) == i <= Len(s) /\ s[i] \in {"+", "-"}

\* Decimal text of a natural number (what a client puts in the path for an
\* id it read from a response).
RECURSIVE Itoa(_)
Itoa(n) ==
  IF n < 10 THEN <<Digits[n + 1]>> ELSE Itoa(n \div 10) \o <<Digits[(n % 10) + 1]>>

(***************************************************************************)
(* parseInt(text): blanks, a sign, then the longest run of decimal digits; *)
(* whatever follows is dropped; NaN when there is no digit.  (The texts of *)
(* the model hold no "x", so the 0x radix rule never applies.)             *)
(***************************************************************************)
ParseIntDigits(s, neg, i1, k) ==
  [nan |-> k = i1,
   val |-> IF neg THEN 0 - DecVal(s, i1, k - 1) ELSE DecVal(s, i1, k - 1)]

ParseIntSigned(s, i0, i1) ==
  ParseIntDigits(s, i0 <= Len(s) /\ s[i0] = "-", i1, DigitsEnd(s, i1))

ParseIntFrom(s, i0) ==
  ParseIntSigned(s, i0, IF IsSign(s, i0) THEN i0 + 1 ELSE i0)

ParseInt(s) == ParseIntFrom(s, SkipWs(s, 1))

(***************************************************************************)
(* SQLite compares a TEXT parameter with an INTEGER column after applying  *)
(* numeric affinity to the text: a well-formed integer or real literal     *)
(* (blanks, sign, digits, fraction, exponent, blanks) becomes a number,    *)
(* any other text stays text and equals no integer.  The number is         *)
(* mant * 10^scale.  The literal is read left to right: sign at i0,        *)
(* integer digits i1..k-1, fraction digits f0..f1-1, exponent digits       *)
(* e0..e1-1.                                                               *)
(***************************************************************************)
SqlNumericParts(s, neg, i1, k, f0, f1, hasExp, expNeg, e0, e1) ==
  [ok |-> /\ (k - i1) + (f1 - f0) > 0
          /\ (hasExp => e1 > e0)
          /\ SkipWs(s, e1) = Len(s) + 1,
   mant |-> (IF neg THEN -1 ELSE 1)
              * (DecVal(s, i1, k - 1) * Pow10(f1 - f0) + DecVal(s, f0, f1 - 1)),
   scale |-> (IF ~hasExp THEN 0
              ELSE IF expNeg THEN 0 - DecVal(s, e0, e1 - 1)
              ELSE DecVal(s, e0, e1 - 1)) - (f1 - f0)]

SqlNumericExp(s, neg, i1, k, f0, f1, hasExp, e0) ==
  SqlNumericParts(s, neg, i1, k, f0, f1, hasExp,
                  hasExp /\ f1 + 1 <= Len(s) /\ s[f1 + 1] = "-",
                  e0, IF hasExp THEN DigitsEnd(s, e0) ELSE f1)

SqlNumericFrac(s, neg, i1, k, f0, f1) ==
  SqlNumericExp(s, neg, i1, k, f0, f1,
                f1 <= Len(s) /\ s[f1] \in {"e", "E"},
                IF IsSign(s, f1 + 1) THEN f1 + 2 ELSE f1 + 1)

SqlNumericInt(s, neg, i1, k) ==
  SqlNumericFrac(s, neg, i1, k,
                 IF k <= Len(s) /\ s[k] = "." THEN k + 1 ELSE k,
                 DigitsEnd(s, IF k <= Len(s) /\ s[k] = "." THEN k + 1 ELSE k))

SqlNumericFrom(s, i0) ==
  SqlNumericInt(s, i0 <= Len(s) /\ s[i0] = "-",
                IF IsSign(s, i0) THEN i0 + 1 ELSE i0,
                DigitsEnd(s, IF IsSign(s, i0) THEN i0 + 1 ELSE i0))

SqlNumeric(s) == SqlNumericFrom(s, SkipWs(s, 1))

\* Path texts a client may send as :id on the users routes.
UserIdParams ==
  {Itoa(i) : i \in {1, 2, MaxUserId}}
    \cup {<<"1", "e", "1">>, <<"1", "0", "e", "-", "1">>,
          <<"0", ".", "1", "e", "1">>, <<"1", "a">>}

\* Path texts a client may send as :id on the files routes.
FileIdParams ==
  {Itoa(i) : i \in 1..MaxFileId} \cup {<<"1", "e", "0">>, <<"1", "a">>}

TagIdParams == {Itoa(i) : i \in 1..MaxTagId} \cup {<<"1", "e", "0">>}

\* Both conversions of every path text of the model, computed once.
ParsedInt == [s \in UserIdParams \cup FileIdParams \cup TagIdParams |-> ParseInt(s)]

Numeric == [s \in UserIdParams \cup FileIdParams \cup TagIdParams |-> SqlNumeric(s)]

ParseIntOf(s) == IF s \in DOMAIN ParsedInt THEN ParsedInt[s] ELSE ParseInt(s)

SqlNumericOf(s) == IF s \in DOMAIN Numeric THEN Numeric[s] ELSE SqlNumeric(s)

\* column = ? for an INTEGER column holding n and a TEXT parameter s.
IntEqText(n, s) ==
  LET x == SqlNumericOf(s)
  IN /\ x.ok
     /\ IF x.scale >= 0
        THEN n = x.mant * Pow10(x.scale)
        ELSE n * Pow10(0 - x.scale) = x.mant

\* JavaScript truthiness of an optional text field of a request.
Undefined == "<undefined>"

Truthy(x) == x \notin {Undefined, ""}

(***************************************************************************)
(* The store (config/db.js).                                               *)
(***************************************************************************)
VARIABLES
  users,      \* rows of table users
  userSeq,    \* AUTOINCREMENT counter of users (largest id ever taken)
  tokens,     \* payloads [id, level] of the signed tokens not yet expired
  files,      \* rows of table files
  fileSeq,    \* AUTOINCREMENT counter of files
  tags,       \* rows of table tags
  tagSeq,     \* AUTOINCREMENT counter of tags
  file_tags,  \* rows of table file_tags, as <<file_id, tag_id>>
  blobs,      \* paths present in the uploads directory
  requests,   \* the requests followed one store call at a time
  tagInput    \* props and state of a mounted TagInput component

vars ==
  <<users, userSeq, tokens, files, fileSeq, tags, tagSeq, file_tags, blobs,
    requests, tagInput>>

userVars == <<users, userSeq, tokens>>

fileTables == <<files, fileSeq, tags, tagSeq, file_tags, blobs>>

fileVars == <<fileTables, requests, tagInput>>

\* A request in flight: the handler (op), the store call it issues next
\* (pc), the values its callbacks have bound so far, its response (status
\* 0: not yet answered) and the err.message it has logged.
Slots == 1..MaxRequests

NoRequest ==
  [op |-> "none", pc |-> "done", idp |-> <<>>, fileId |-> 0,
   name |-> <<>>, description |-> <<>>, tagList |-> <<>>, index |-> 0,
   tagId |-> 0, username |-> "", email |-> "", status |-> 0, logged |-> ""]

\* CURRENT_TIMESTAMP and bcrypt's output are opaque to every handler.
Timestamp == "ts"

PasswordHash == "hash"

\* TagInput as it mounts: useState(""), useState([]), useState(false),
\* useState(-1), with no tag selected and the input not focused.  domFocus:
\* the input element has the keyboard focus.  key: the key with which the
\* last event added the highlighted suggestion, if it did.  threw: the last
\* event handler ended in a TypeError.
InitTagInput ==
  [value |-> <<>>, inputValue |-> <<>>, suggestions |-> <<>>,
   isFocused |-> FALSE, domFocus |-> FALSE, highlightedIndex |-> -1,
   key |-> "", threw |-> FALSE]

InitStore ==
  /\ users = {} /\ userSeq = 0
  /\ files = {} /\ fileSeq = 0
  /\ tags = {} /\ tagSeq = 0
  /\ file_tags = {}
  /\ blobs = {}
  /\ tokens = {}
  /\ requests = [s \in Slots |-> NoRequest]
  /\ tagInput = InitTagInput

(***************************************************************************)
(* routes/users.js, POST /api/auth/register and createAdmin.cjs.           *)
(***************************************************************************)
Usernames == {"admin", "bob"}

Emails == {"admin@example.com", "bob@example.com", "eve@example.com"}

UsernameInputs == Usernames \cup {Undefined}

EmailInputs == Emails \cup {Undefined}

PasswordInputs == {"secret", Undefined}

LevelInputs == Levels \cup {Undefined, "root"}

UserRow(id, username, email, level) ==
  [id |-> id, username |-> username, email |-> email,
   password |-> PasswordHash, level |-> level, created_at |-> Timestamp]

\* The UNIQUE constraints of users on username and email.
UserInsertOk(username, email) ==
  \A u \in users : u.username # username /\ u.email # email

\* The ids whose accounts the model follows; the counter passes the ids in
\* between through inserts that createAdmin.cjs has ignored.
FollowedUserIds == {1, 2, MaxUserId}

\* Room for one more id, and for one more row, within the bounds.
UserIdRoom == userSeq < MaxUserId

UserRoom ==
  /\ UserIdRoom
  /\ userSeq + 1 \in FollowedUserIds
  /\ Cardinality(users) < MaxUsers

\* The two user variables as one value, and the step that installs one.
UserStore == [users |-> users, userSeq |-> userSeq]

SetUserStore(st) ==
  /\ users' = st.users
  /\ userSeq' = st.userSeq

InsertUser(username, email, level) ==
  [users |-> users \cup {UserRow(userSeq + 1, username, email, level)},
   userSeq |-> userSeq + 1]

\* SELECT ... FROM users WHERE id = ? with the path text as parameter.
UsersById(idp) == {u \in users : IntEqText(u.id, idp)}

isAdmin(reqUser) == reqUser.level = "admin"

canManageUser(reqUser, idp) ==
  LET targetUserId == ParseIntOf(idp)
  IN \/ reqUser.level = "admin"
     \/ (~targetUserId.nan /\ reqUser.id = targetUserId.val)

\* createAdmin.cjs: INSERT OR IGNORE of the admin account.  An ignored
\* insert has already taken its id from the AUTOINCREMENT counter.
CreateAdminScriptEffect ==
  IF UserInsertOk("admin", "admin@example.com")
  THEN InsertUser("admin", "admin@example.com", "admin")
  ELSE [UserStore EXCEPT !.userSeq = @ + 1]

CreateAdminScript ==
  /\ IF UserInsertOk("admin", "admin@example.com") THEN UserRoom ELSE UserIdRoom
  /\ SetUserStore(CreateAdminScriptEffect)
  /\ UNCHANGED <<tokens, fileVars>>

\* POST /api/auth/register
RegisterStatus(username, email, password) ==
  IF ~Truthy(username) \/ ~Truthy(email) \/ ~Truthy(password) THEN 400
  ELSE IF \E u \in users : u.email = email THEN 400
  ELSE IF ~UserInsertOk(username, email) THEN 500
  ELSE 200

RegisterEffect(username, email, password) ==
  IF RegisterStatus(username, email, password) = 200
  THEN InsertUser(username, email, "user")
  ELSE UserStore

\* The token signed for the new account; it is followed when there is room
\* among the followed tokens.
RegisterToken == [id |-> userSeq + 1, level |-> "user"]

TokenRoom == Cardinality(tokens) < MaxTokens

Register(username, email, password) ==
  /\ RegisterStatus(username, email, password) = 200 => UserRoom
  /\ SetUserStore(RegisterEffect(username, email, password))
  /\ tokens' = IF RegisterStatus(username, email, password) = 200 /\ TokenRoom
                THEN tokens \cup {RegisterToken}
                ELSE tokens
  /\ UNCHANGED fileVars

\* POST /api/users
CreateUserLevel(levelIn) == IF levelIn = Undefined THEN "user" ELSE levelIn

CreateUserStatus(reqUser, username, email, password, levelIn) ==
  IF ~isAdmin(reqUser) THEN 403
  ELSE IF ~Truthy(username) \/ ~Truthy(email) \/ ~Truthy(password) THEN 400
  ELSE IF CreateUserLevel(levelIn) \notin {"admin", "user", "viewer"} THEN 400
  ELSE IF \E u \in users : u.username = username \/ u.email = email THEN 400
  ELSE 201

CreateUserEffect(reqUser, username, email, password, levelIn) ==
  IF CreateUserStatus(reqUser, username, email, password, levelIn) = 201
  THEN InsertUser(username, email, CreateUserLevel(levelIn))
  ELSE UserStore

CreateUser(reqUser, username, email, password, levelIn) ==
  /\ CreateUserStatus(reqUser, username, email, password, levelIn) = 201 => UserRoom
  /\ SetUserStore(CreateUserEffect(reqUser, username, email, password, levelIn))
  /\ UNCHANGED <<tokens, fileVars>>

\* PUT /api/users/:id: the SET list built from the body.
UpdatedUser(reqUser, u, username, email, level) ==
  [u EXCEPT !.username = IF Truthy(username) THEN username ELSE @,
            !.email = IF Truthy(email) THEN email ELSE @,
            !.level = IF Truthy(level) /\ reqUser.level = "admin" THEN level ELSE @]

NoUpdates(reqUser, username, email, level) ==
  ~Truthy(username) /\ ~Truthy(email) /\ ~(Truthy(level) /\ reqUser.level = "admin")

UpdateUserStatus(reqUser, idp, username, email, level) ==
  IF ~canManageUser(reqUser, idp) THEN 403
  ELSE IF UsersById(idp) = {} THEN 404
  ELSE IF Truthy(level) /\ level \notin {"admin", "user", "viewer"} THEN 400
  ELSE IF \E u \in users : /\ (u.username = username \/ u.email = email)
                           /\ ~IntEqText(u.id, idp) THEN 400
  ELSE IF NoUpdates(reqUser, username, email, level) THEN 400
  ELSE 200

UpdateUserEffect(reqUser, idp, username, email, level) ==
  IF UpdateUserStatus(reqUser, idp, username, email, level) = 200
  THEN [UserStore EXCEPT
          !.users = {IF IntEqText(u.id, idp)
                     THEN UpdatedUser(reqUser, u, username, email, level)
                     ELSE u : u \in users}]
  ELSE UserStore

UpdateUser(reqUser, idp, username, email, level) ==
  /\ SetUserStore(UpdateUserEffect(reqUser, idp, username, email, level))
  /\ UNCHANGED <<tokens, fileVars>>

\* DELETE /api/users/:id: the guard "Prevent admin from deleting themselves".
IsSelfDelete(reqUser, idp) ==
  LET n == ParseIntOf(idp) IN ~n.nan /\ reqUser.id = n.val

DeleteUserStatus(reqUser, idp) ==
  IF ~isAdmin(reqUser) THEN 403
  ELSE IF IsSelfDelete(reqUser, idp) THEN 400
  ELSE IF UsersById(idp) = {} THEN 404
  ELSE 200

\* Foreign keys are never switched on (no PRAGMA foreign_keys), and
\* files.user_id is declared without an ON DELETE action, so the DELETE
\* touches table users alone.
DeleteUserEffect(reqUser, idp) ==
  IF DeleteUserStatus(reqUser, idp) = 200
  THEN [UserStore EXCEPT !.users = {u \in users : ~IntEqText(u.id, idp)}]
  ELSE UserStore

DeleteUser(reqUser, idp) ==
  /\ SetUserStore(DeleteUserEffect(reqUser, idp))
  /\ UNCHANGED <<tokens, fileVars>>

\* POST /api/auth/login: the token signed for the account of the email.
\* Every stored hash is that of the one password the model registers.
LoginStatus(email, password) ==
  IF ~Truthy(email) \/ ~Truthy(password) THEN 400
  ELSE IF ~\E u \in users : u.email = email THEN 400
  ELSE IF password # "secret" THEN 400
  ELSE 200

LoginToken(email) ==
  LET user == CHOOSE u \in users : u.email = email
  IN [id |-> user.id, level |-> user.level]

Login(email, password) ==
  /\ IF LoginStatus(email, password) = 200
     THEN TokenRoom /\ tokens' = tokens \cup {LoginToken(email)}
     ELSE UNCHANGED tokens
  /\ UNCHANGED <<users, userSeq, fileVars>>

\* expiresIn: '1h'
TokenExpires(t) ==
  /\ tokens' = tokens \ {t}
  /\ UNCHANGED <<users, userSeq, fileVars>>

\* A handler that answers before it reads the body is modelled with one body.
NextUsers ==
  \/ CreateAdminScript
  \/ \E em \in EmailInputs, pw \in PasswordInputs : Login(em, pw)
  \/ \E t \in tokens : TokenExpires(t)
  \/ \E un \in UsernameInputs, em \in EmailInputs, pw \in PasswordInputs :
       Register(un, em, pw)
  \/ \E c \in tokens :
       IF ~isAdmin(c)
       THEN CreateUser(c, Undefined, Undefined, Undefined, Undefined)
       ELSE \E un \in UsernameInputs, em \in EmailInputs,
               pw \in PasswordInputs, lv \in LevelInputs :
              CreateUser(c, un, em, pw, lv)
  \/ \E c \in tokens, idp \in UserIdParams :
       IF ~canManageUser(c, idp) \/ UsersById(idp) = {}
       THEN UpdateUser(c, idp, Undefined, Undefined, Undefined)
       ELSE \E un \in UsernameInputs, em \in EmailInputs, lv \in LevelInputs :
              UpdateUser(c, idp, un, em, lv)
  \/ \E c \in tokens, idp \in UserIdParams : DeleteUser(c, idp)

SpecUsers == InitStore /\ [][NextUsers]_vars

(***************************************************************************)
(* SQL as routes/files.js composes it: a query is the column list and the  *)
(* tokens that follow FROM files; params are bound to the ?s in order.     *)
(***************************************************************************)
IntParam(n) == [t |-> "int", v |-> n]

TextParam(s) == [t |-> "text", v |-> s]

SqlAtoms == {"id = ?", "user_id = ?", "name LIKE ?", "description LIKE ?"}

\* x LIKE pattern: % is any run of characters, _ any one character, letters
\* compare without case.
RECURSIVE Like(_, _)
Like(pat, str) ==
  IF pat = <<>> THEN str = <<>>
  ELSE IF Head(pat) = "%"
       THEN Like(Tail(pat), str) \/ (str # <<>> /\ Like(pat, Tail(str)))
       ELSE /\ str # <<>>
            /\ (Head(pat) = "_" \/ LowerChar(Head(pat)) = LowerChar(Head(str)))
            /\ Like(Tail(pat), Tail(str))

EvalAtom(atom, param, row) ==
  CASE atom = "id = ?" ->
         IF param.t = "int" THEN row.id = param.v ELSE IntEqText(row.id, param.v)
    [] atom = "user_id = ?" ->
         IF param.t = "int" THEN row.user_id = param.v
         ELSE IntEqText(row.user_id, param.v)
    [] atom = "name LIKE ?" ->
         Like(IF param.t = "int" THEN Itoa(param.v) ELSE param.v, row.name)
    [] atom = "description LIKE ?" ->
         Like(IF param.t = "int" THEN Itoa(param.v) ELSE param.v, row.description)

\* The number of ?s before position p.
ParamsBefore(toks, p) == Cardinality({i \in 1..(p - 1) : toks[i] \in SqlAtoms})

\* The first position in p..b where word stands outside every parenthesis
\* opened since the scan began at depth 0; 0 when there is none.
RECURSIVE TopLevel(_, _, _, _, _)
TopLevel(toks, p, b, depth, word) ==
  IF p > b THEN 0
  ELSE IF toks[p] = "(" THEN TopLevel(toks, p + 1, b, depth + 1, word)
  ELSE IF toks[p] = ")" THEN TopLevel(toks, p + 1, b, depth - 1, word)
  ELSE IF depth = 0 /\ toks[p] = word THEN p
  ELSE TopLevel(toks, p + 1, b, depth, word)

\* Is toks[a..b] an expression?  OR binds weaker than AND; parentheses group.
RECURSIVE WellFormed(_, _, _)
WellFormed(toks, a, b) ==
  LET or == TopLevel(toks, a, b, 0, "OR")
      and == TopLevel(toks, a, b, 0, "AND")
  IN IF a > b THEN FALSE
     ELSE IF or # 0
     THEN WellFormed(toks, a, or - 1) /\ WellFormed(toks, or + 1, b)
     ELSE IF and # 0
     THEN WellFormed(toks, a, and - 1) /\ WellFormed(toks, and + 1, b)
     ELSE IF toks[a] = "(" /\ toks[b] = ")" /\ a < b
     THEN WellFormed(toks, a + 1, b - 1)
     ELSE a = b /\ toks[a] \in SqlAtoms

\* Value of the well-formed expression toks[a..b] on a row.  A ? with no
\* parameter bound is NULL, and its comparison is not true.
RECURSIVE EvalExpr(_, _, _, _, _)
EvalExpr(toks, a, b, params, row) ==
  LET or == TopLevel(toks, a, b, 0, "OR")
      and == TopLevel(toks, a, b, 0, "AND")
      n == ParamsBefore(toks, a)
  IN IF or # 0
     THEN EvalExpr(toks, a, or - 1, params, row) \/ EvalExpr(toks, or + 1, b, params, row)
     ELSE IF and # 0
     THEN EvalExpr(toks, a, and - 1, params, row) /\ EvalExpr(toks, and + 1, b, params, row)
     ELSE IF toks[a] = "("
     THEN EvalExpr(toks, a + 1, b - 1, params, row)
     ELSE n < Len(params) /\ EvalAtom(toks[a], params[n + 1], row)

\* Does the statement prepare and bind?  No tokens: yes.  Otherwise WHERE
\* and one expression, with no more parameters than ?s.
QueryOk(toks, params) ==
  IF toks = <<>> THEN params = <<>>
  ELSE /\ toks[1] = "WHERE"
       /\ WellFormed(toks, 2, Len(toks))
       /\ Len(params) <= ParamsBefore(toks, Len(toks) + 1)

RowMatches(toks, params, row) ==
  IF toks = <<>> THEN TRUE ELSE EvalExpr(toks, 2, Len(toks), params, row)

\* db.all / db.get on files: the error flag and the rows selected.
SelectFiles(toks, params) ==
  IF QueryOk(toks, params)
  THEN [err |-> FALSE, rows |-> {f \in files : RowMatches(toks, params, f)}]
  ELSE [err |-> TRUE, rows |-> {}]

(***************************************************************************)
(* JavaScript objects: the defined properties and the names of properties  *)
(* set to undefined, which res.json leaves out.                            *)
(***************************************************************************)
Obj(fields) == [f |-> fields, u |-> {}]

UndefinedProps(names) == [f |-> <<>>, u |-> names]

\* {...a, ...b}
Spread(a, b) ==
  [f |-> [k \in (DOMAIN a.f \ b.u) \cup DOMAIN b.f |->
            IF k \in DOMAIN b.f THEN b.f[k] ELSE a.f[k]],
   u |-> (a.u \ DOMAIN b.f) \cup b.u]

Json(o) == o.f

(***************************************************************************)
(* routes/files.js.                                                        *)
(***************************************************************************)
FileColumns ==
  {"id", "name", "description", "file_path", "file_type", "size", "user_id",
   "created_at"}

\* The file.originalname of every upload, and the texts a client sends.
OriginalName == <<"B">>

NameInputs == {<<>>, <<"a">>}

DescriptionInputs == {<<>>, <<"b">>}

SearchInputs == {<<>>, <<"b">>, <<"_">>}

\* Tag lists of a body: JSON arrays of tag names.
TagLists ==
  {<<>>, << <<"x">> >>, << <<"y">> >>, << <<"x">>, <<"y">> >>,
   << <<"x">>, <<"x">> >>}

\* The tags query parameter: absent, one text, or an array of texts.
TagsQuery(present, isArray, list) ==
  [present |-> present, isArray |-> isArray, list |-> list]

TagsQueryInputs ==
  {TagsQuery(FALSE, FALSE, <<>>),
   TagsQuery(TRUE, FALSE, << <<>> >>),
   TagsQuery(TRUE, FALSE, << <<"x">> >>),
   TagsQuery(TRUE, FALSE, << <<"y">> >>),
   TagsQuery(TRUE, TRUE, << <<"x">>, <<"y">> >>)}

TagsQueryTruthy(tq) == tq.present /\ (tq.isArray \/ tq.list[1] # <<>>)

FileCallers == [id : 1..MaxCallerId, level : Levels]

Project(row, cols) == [k \in cols |-> row[k]]

Url(file_path) == <<"/uploads/", file_path>>

\* getTagsForFile: the names of the tags joined to the file.
getTagsForFile(fileId) == {t.name : t \in {t \in tags : <<fileId, t.id>> \in file_tags}}

\* ProcessTag without the lookup of the name: a tag row for every round.
ProcessTag_NoLookup(fileId, tag, st) ==
  [st EXCEPT
     !.tags = @ \cup {[id |-> st.tagSeq + 1, name |-> tag]},
     !.tagSeq = @ + 1,
     !.file_tags = @ \cup {<<fileId, st.tagSeq + 1>>}]

\* One round of processTag: look the name up, create the tag when there is
\* none, link it with INSERT OR IGNORE.  st is a file store.
ProcessTag(fileId, tag, st) ==
  LET found == {t \in st.tags : t.name = tag}
      tagId == IF found # {} THEN (CHOOSE t \in found : TRUE).id ELSE st.tagSeq + 1
  IN [st EXCEPT
        !.tags = IF found # {} THEN @ ELSE @ \cup {[id |-> tagId, name |-> tag]},
        !.tagSeq = IF found # {} THEN @ ELSE tagId,
        !.file_tags = @ \cup {<<fileId, tagId>>}]

RECURSIVE addTagsToFile(_, _, _)
addTagsToFile(fileId, tagList, st) ==
  IF tagList = <<>> THEN st
  ELSE addTagsToFile(fileId, Tail(tagList), ProcessTag(fileId, Head(tagList), st))

\* The file variables as one value, and the step that installs one.
FileStore ==
  [files |-> files, fileSeq |-> fileSeq, tags |-> tags, tagSeq |-> tagSeq,
   file_tags |-> file_tags, blobs |-> blobs]

WriteFileStore(st) ==
  /\ files' = st.files
  /\ fileSeq' = st.fileSeq
  /\ tags' = st.tags
  /\ tagSeq' = st.tagSeq
  /\ file_tags' = st.file_tags
  /\ blobs' = st.blobs

\* The step of a handler that runs its store calls back to back.
SetFileStore(st) ==
  /\ WriteFileStore(st)
  /\ UNCHANGED <<requests, tagInput>>

\* Rows of a set in rowid order.
RECURSIVE InIdOrder(_)
InIdOrder(rows) ==
  IF rows = {} THEN <<>>
  ELSE LET first == CHOOSE r \in rows : \A o \in rows : r.id <= o.id
       IN <<first>> \o InIdOrder(rows \ {first})

\* POST /api/files
UploadStatus(reqUser, hasFile) == IF ~hasFile THEN 400 ELSE 201

FileRoom == fileSeq < MaxFileId

\* UploadEffect without the call of addTagsToFile.
UploadEffect_NoTags(reqUser, name, description, tagList, hasFile) ==
  IF UploadStatus(reqUser, hasFile) = 201
  THEN [FileStore EXCEPT
          !.files = @ \cup
            {[id |-> fileSeq + 1,
              name |-> IF name # <<>> THEN name ELSE OriginalName,
              description |-> description,
              file_path |-> Itoa(fileSeq + 1),
              file_type |-> "application/pdf",
              size |-> 1,
              user_id |-> reqUser.id,
              created_at |-> Timestamp]},
          !.fileSeq = @ + 1,
          !.blobs = @ \cup {Itoa(fileSeq + 1)}]
  ELSE FileStore

UploadEffect(reqUser, name, description, tagList, hasFile) ==
  IF UploadStatus(reqUser, hasFile) = 201
  THEN addTagsToFile(
         fileSeq + 1, tagList,
         [FileStore EXCEPT
            !.files = @ \cup
              {[id |-> fileSeq + 1,
                name |-> IF name # <<>> THEN name ELSE OriginalName,
                description |-> description,
                file_path |-> Itoa(fileSeq + 1),
                file_type |-> "application/pdf",
                size |-> 1,
                user_id |-> reqUser.id,
                created_at |-> Timestamp]},
            !.fileSeq = @ + 1,
            !.blobs = @ \cup {Itoa(fileSeq + 1)}])
  ELSE FileStore

\* The tags field of the 201 response: getTagsForFile on the store the
\* handler has written, as a set.
UploadBodyTags(reqUser, name, description, tagList, hasFile) ==
  LET st == UploadEffect(reqUser, name, description, tagList, hasFile)
  IN {t.name : t \in {t \in st.tags : <<fileSeq + 1, t.id>> \in st.file_tags}}

Upload(reqUser, name, description, tagList, hasFile) ==
  /\ UploadStatus(reqUser, hasFile) = 201 => FileRoom
  /\ SetFileStore(UploadEffect(reqUser, name, description, tagList, hasFile))
  /\ UNCHANGED userVars

\* GET /api/files: the query text and its parameters.
SearchClause == <<"(", "name LIKE ?", "OR", "description LIKE ?", ")">>

\* ListFilesBaseQuery with the user's rows selected as the admin's are.
ListFilesBaseQuery_UserUnscoped(reqUser) ==
  CASE reqUser.level \in {"admin", "user"} ->
         [cols |-> FileColumns, toks |-> <<>>, params |-> <<>>]
    [] reqUser.level = "viewer" ->
         [cols |-> {"id", "name", "file_path", "created_at"}, toks |-> <<>>,
          params |-> <<>>]

ListFilesBaseQuery(reqUser) ==
  CASE reqUser.level = "admin" ->
         [cols |-> FileColumns, toks |-> <<>>, params |-> <<>>]
    [] reqUser.level = "user" ->
         [cols |-> FileColumns, toks |-> <<"WHERE", "user_id = ?">>,
          params |-> <<IntParam(reqUser.id)>>]
    [] reqUser.level = "viewer" ->
         [cols |-> {"id", "name", "file_path", "created_at"}, toks |-> <<>>,
          params |-> <<>>]

\* ListFilesQuery with the search applied for every level.
ListFilesQuery_ViewerSearch(reqUser, search) ==
  LET q == ListFilesBaseQuery(reqUser)
      pattern == TextParam(<<"%">> \o search \o <<"%">>)
  IN IF search # <<>>
     THEN [q EXCEPT
             !.toks = @ \o (IF reqUser.level = "admin" \/ Len(q.params) = 0
                            THEN <<"WHERE">> ELSE <<"AND">>) \o SearchClause,
             !.params = @ \o <<pattern, pattern>>]
     ELSE q

ListFilesQuery(reqUser, search) ==
  LET q == ListFilesBaseQuery(reqUser)
      pattern == TextParam(<<"%">> \o search \o <<"%">>)
  IN IF search # <<>> /\ reqUser.level # "viewer"
     THEN [q EXCEPT
             !.toks = @ \o (IF reqUser.level = "admin" \/ Len(q.params) = 0
                            THEN <<"WHERE">> ELSE <<"AND">>) \o SearchClause,
             !.params = @ \o <<pattern, pattern>>]
     ELSE q

\* The object built for one selected row.
ListFilesItem(reqUser, file) ==
  LET fileTags == IF reqUser.level = "viewer" THEN {} ELSE getTagsForFile(file.id)
  IN Spread(Spread(Obj(file), Obj([url |-> Url(file.file_path), tags |-> fileTags])),
            IF reqUser.level = "viewer"
            THEN UndefinedProps({"description", "file_type", "size", "user_id"})
            ELSE Obj(<<>>))

\* ListFilesFilter with some in the place of every.
ListFilesFilter_Some(reqUser, tagsq, item) ==
  IF TagsQueryTruthy(tagsq) /\ reqUser.level # "viewer"
  THEN \E i \in 1..Len(tagsq.list) : tagsq.list[i] \in item.f.tags
  ELSE TRUE

ListFilesFilter(reqUser, tagsq, item) ==
  IF TagsQueryTruthy(tagsq) /\ reqUser.level # "viewer"
  THEN \A i \in 1..Len(tagsq.list) : tagsq.list[i] \in item.f.tags
  ELSE TRUE

ListFilesSelected(reqUser, search) ==
  LET q == ListFilesQuery(reqUser, search)
  IN [err |-> SelectFiles(q.toks, q.params).err,
      rows |-> InIdOrder({Project(f, q.cols) : f \in SelectFiles(q.toks, q.params).rows})]

ListFilesStatus(reqUser, search, tagsq) ==
  IF ListFilesSelected(reqUser, search).err THEN 500 ELSE 200

\* The JSON array of the 200 response.
ListFilesBody(reqUser, search, tagsq) ==
  LET rows == ListFilesSelected(reqUser, search).rows
      filesWithTags == [i \in 1..Len(rows) |-> ListFilesItem(reqUser, rows[i])]
      filteredFiles ==
        SelectSeq(filesWithTags, LAMBDA item : ListFilesFilter(reqUser, tagsq, item))
  IN [i \in 1..Len(filteredFiles) |-> Json(filteredFiles[i])]

ListFiles(reqUser, search, tagsq) ==
  UNCHANGED vars

\* The permission query of GET, PUT and DELETE /api/files/:id.
\* FileByIdQuery without the ownership condition.
FileByIdQuery_AnyOwner(reqUser, idp, anyFileLevels) ==
  [toks |-> <<"WHERE", "id = ?">>, params |-> <<TextParam(idp)>>]

FileByIdQuery(reqUser, idp, anyFileLevels) ==
  IF reqUser.level \in anyFileLevels
  THEN [toks |-> <<"WHERE", "id = ?">>, params |-> <<TextParam(idp)>>]
  ELSE [toks |-> <<"WHERE", "id = ?", "AND", "user_id = ?">>,
        params |-> <<TextParam(idp), IntParam(reqUser.id)>>]

FileById(reqUser, idp, anyFileLevels) ==
  LET q == FileByIdQuery(reqUser, idp, anyFileLevels)
  IN SelectFiles(q.toks, q.params)

\* GET /api/files/:id
GetFileStatus(reqUser, idp) ==
  LET sel == FileById(reqUser, idp, {"admin", "viewer"})
  IN IF sel.err THEN 500 ELSE IF sel.rows = {} THEN 404 ELSE 200

\* The JSON object of the 200 response.
\* GetFileBody with the full record for every level.
GetFileBody_FullRecord(reqUser, idp) ==
  LET file == CHOOSE f \in FileById(reqUser, idp, {"admin", "viewer"}).rows : TRUE
  IN Json(Spread(Obj(file), Obj([url |-> Url(file.file_path),
                                 tags |-> getTagsForFile(file.id)])))

GetFileBody(reqUser, idp) ==
  LET file == CHOOSE f \in FileById(reqUser, idp, {"admin", "viewer"}).rows : TRUE
  IN IF reqUser.level = "viewer"
     THEN Json(Obj([id |-> file.id, name |-> file.name, file_path |-> file.file_path,
                    created_at |-> file.created_at, url |-> Url(file.file_path)]))
     ELSE Json(Spread(Obj(file), Obj([url |-> Url(file.file_path),
                                      tags |-> getTagsForFile(file.id)])))

GetFile(reqUser, idp) ==
  UNCHANGED vars

\* PUT /api/files/:id
UpdateFileStatus(reqUser, idp) ==
  LET sel == FileById(reqUser, idp, {"admin"})
  IN IF reqUser.level \notin {"admin", "user"} THEN 403
     ELSE IF sel.err THEN 500 ELSE IF sel.rows = {} THEN 404 ELSE 200

\* UpdateFileEffect without the DELETE FROM file_tags.
UpdateFileEffect_NoClear(reqUser, idp, name, description, tagList) ==
  IF UpdateFileStatus(reqUser, idp) = 200
  THEN LET file == CHOOSE f \in FileById(reqUser, idp, {"admin"}).rows : TRUE
       IN addTagsToFile(
            file.id, tagList,
            [FileStore EXCEPT
               !.files = {IF IntEqText(f.id, idp)
                          THEN [f EXCEPT
                                  !.name = IF name # <<>> THEN name ELSE file.name,
                                  !.description = IF description # <<>>
                                                  THEN description
                                                  ELSE file.description]
                          ELSE f : f \in files}])
  ELSE FileStore

\* UpdateFileEffect with the submitted name and description written as they
\* are, empty or not.
UpdateFileEffect_Overwrite(reqUser, idp, name, description, tagList) ==
  IF UpdateFileStatus(reqUser, idp) = 200
  THEN LET file == CHOOSE f \in FileById(reqUser, idp, {"admin"}).rows : TRUE
       IN addTagsToFile(
            file.id, tagList,
            [FileStore EXCEPT
               !.files = {IF IntEqText(f.id, idp)
                          THEN [f EXCEPT !.name = name, !.description = description]
                          ELSE f : f \in files},
               !.file_tags = {ft \in @ : ~IntEqText(ft[1], idp)}])
  ELSE FileStore

UpdateFileEffect(reqUser, idp, name, description, tagList) ==
  IF UpdateFileStatus(reqUser, idp) = 200
  THEN LET file == CHOOSE f \in FileById(reqUser, idp, {"admin"}).rows : TRUE
       \* column file_id turns the path text into the integer file.id
       IN addTagsToFile(
            file.id, tagList,
            [FileStore EXCEPT
               !.files = {IF IntEqText(f.id, idp)
                          THEN [f EXCEPT
                                  !.name = IF name # <<>> THEN name ELSE file.name,
                                  !.description = IF description # <<>>
                                                  THEN description
                                                  ELSE file.description]
                          ELSE f : f \in files},
               !.file_tags = {ft \in @ : ~IntEqText(ft[1], idp)}])
  ELSE FileStore

UpdateFile(reqUser, idp, name, description, tagList) ==
  /\ SetFileStore(UpdateFileEffect(reqUser, idp, name, description, tagList))
  /\ UNCHANGED userVars

\* DELETE /api/files/:id
DeleteFileStatus(reqUser, idp) ==
  LET sel == FileById(reqUser, idp, {"admin"})
  IN IF reqUser.level \notin {"admin", "user"} THEN 403
     ELSE IF sel.err THEN 500 ELSE IF sel.rows = {} THEN 404 ELSE 200

\* DeleteFileEffect without the deletion of the file's file_tags rows.
DeleteFileEffect_KeepLinks(reqUser, idp, unlinkFails) ==
  IF DeleteFileStatus(reqUser, idp) = 200
  THEN LET file == CHOOSE f \in FileById(reqUser, idp, {"admin"}).rows : TRUE
       IN [FileStore EXCEPT
             !.blobs = IF unlinkFails THEN @ ELSE @ \ {file.file_path},
             !.files = {f \in @ : ~IntEqText(f.id, idp)}]
  ELSE FileStore

\* unlinkFails: fs.unlink reports an error, which is logged and passed over.
DeleteFileEffect(reqUser, idp, unlinkFails) ==
  IF DeleteFileStatus(reqUser, idp) = 200
  THEN LET file == CHOOSE f \in FileById(reqUser, idp, {"admin"}).rows : TRUE
       IN [FileStore EXCEPT
             !.blobs = IF unlinkFails THEN @ ELSE @ \ {file.file_path},
             !.files = {f \in @ : ~IntEqText(f.id, idp)},
             !.file_tags = {ft \in @ : ~IntEqText(ft[1], idp)}]
  ELSE FileStore

DeleteFile(reqUser, idp, unlinkFails) ==
  /\ SetFileStore(DeleteFileEffect(reqUser, idp, unlinkFails))
  /\ UNCHANGED userVars

NextFiles ==
  \/ \E c \in FileCallers :
       \/ Upload(c, <<>>, <<>>, <<>>, FALSE)
       \/ \E n \in NameInputs, d \in DescriptionInputs, tl \in TagLists :
            Upload(c, n, d, tl, TRUE)
  \/ \E c \in FileCallers, s \in SearchInputs, tq \in TagsQueryInputs :
       ListFiles(c, s, tq)
  \/ \E c \in FileCallers, idp \in FileIdParams : GetFile(c, idp)
  \/ \E c \in FileCallers, idp \in FileIdParams :
       IF UpdateFileStatus(c, idp) # 200
       THEN UpdateFile(c, idp, <<>>, <<>>, <<>>)
       ELSE \E n \in NameInputs, d \in DescriptionInputs, tl \in TagLists :
              UpdateFile(c, idp, n, d, tl)
  \/ \E c \in FileCallers, idp \in FileIdParams :
       IF DeleteFileStatus(c, idp) # 200
       THEN DeleteFile(c, idp, FALSE)
       ELSE \E uf \in BOOLEAN : DeleteFile(c, idp, uf)

SpecFiles == InitStore /\ [][NextFiles]_vars

(***************************************************************************)
(* addTagsToFile on its own: files are uploaded without tags and lists of  *)
(* tag names are applied to them one after the other.                      *)
(***************************************************************************)
\* The senders of the file requests where the tags are what is followed:
\* one admin and one user.
TagSpecCallers == {c \in FileCallers : c.id = 1 /\ c.level # "viewer"}

AddTagLists == TagLists \cup {<< <<"z">> >>, << <<"y">>, <<"z">> >>}

ApplyTags(fileId, tagList) ==
  /\ SetFileStore(addTagsToFile(fileId, tagList, FileStore))
  /\ UNCHANGED userVars

NextAddTags ==
  \/ \E c \in TagSpecCallers : Upload(c, <<>>, <<>>, <<>>, TRUE)
  \/ \E f \in files, tl \in AddTagLists : ApplyTags(f.id, tl)

SpecAddTags == InitStore /\ [][NextAddTags]_vars

(***************************************************************************)
(* routes/files.js: tag management.  Each path is registered twice; the    *)
(* first registration answers every request and is the one modelled.       *)
(***************************************************************************)
\* The name field of a body: absent, blank, and names that differ in case.
TagNameInputs == {<<>>, <<" ">>, <<"x">>, <<"X">>}

\* GET /api/files/tags
ListTagsStatus(reqUser) == 200

\* The rows of the 200 response, their order aside.
ListTagsBody(reqUser) ==
  {[id |-> t.id, name |-> t.name,
    usage_count |-> Cardinality({ft \in file_tags : ft[2] = t.id})] : t \in tags}

ListTags(reqUser) == UNCHANGED vars

\* POST /api/files/tags
\* CreateTagStatus without the check of the caller's level.
CreateTagStatus_AnyCaller(reqUser, name) ==
  IF name = <<>> THEN 400
  ELSE IF \E t \in tags : t.name = name THEN 409
  ELSE 201

CreateTagStatus(reqUser, name) ==
  IF reqUser.level # "admin" THEN 403
  ELSE IF name = <<>> THEN 400
  ELSE IF \E t \in tags : t.name = name THEN 409
  ELSE 201

CreateTagEffect(reqUser, name) ==
  IF CreateTagStatus(reqUser, name) = 201
  THEN [FileStore EXCEPT !.tags = @ \cup {[id |-> tagSeq + 1, name |-> name]},
                         !.tagSeq = @ + 1]
  ELSE FileStore

TagRoom == tagSeq < MaxTagId

CreateTag(reqUser, name) ==
  /\ CreateTagStatus(reqUser, name) = 201 => TagRoom
  /\ SetFileStore(CreateTagEffect(reqUser, name))
  /\ UNCHANGED userVars

\* PUT /api/files/tags/:id
\* RenameTagStatus without the UNIQUE constraint on the name.
RenameTagStatus_NoUnique(reqUser, idp, name) ==
  IF reqUser.level # "admin" THEN 403
  ELSE IF name = <<>> THEN 400
  ELSE IF ~\E t \in tags : IntEqText(t.id, idp) THEN 404
  ELSE 200

RenameTagStatus(reqUser, idp, name) ==
  IF reqUser.level # "admin" THEN 403
  ELSE IF name = <<>> THEN 400
  ELSE IF /\ \E t \in tags : IntEqText(t.id, idp)
          /\ \E t \in tags : ~IntEqText(t.id, idp) /\ t.name = name THEN 409
  ELSE IF ~\E t \in tags : IntEqText(t.id, idp) THEN 404
  ELSE 200

RenameTagEffect(reqUser, idp, name) ==
  IF RenameTagStatus(reqUser, idp, name) = 200
  THEN [FileStore EXCEPT
          !.tags = {IF IntEqText(t.id, idp) THEN [t EXCEPT !.name = name] ELSE t :
                      t \in @}]
  ELSE FileStore

RenameTag(reqUser, idp, name) ==
  /\ SetFileStore(RenameTagEffect(reqUser, idp, name))
  /\ UNCHANGED userVars

\* DELETE /api/files/tags/:id
TagUsageCount(idp) == Cardinality({ft \in file_tags : IntEqText(ft[2], idp)})

\* DeleteTagStatus without the usage check.
DeleteTagStatus_NoUsageCheck(reqUser, idp) ==
  IF reqUser.level # "admin" THEN 403
  ELSE IF ~\E t \in tags : IntEqText(t.id, idp) THEN 404
  ELSE 200

DeleteTagStatus(reqUser, idp) ==
  IF reqUser.level # "admin" THEN 403
  ELSE IF TagUsageCount(idp) > 0 THEN 400
  ELSE IF ~\E t \in tags : IntEqText(t.id, idp) THEN 404
  ELSE 200

\* DeleteTagEffect with the DELETE run before the usage count is looked at.
DeleteTagEffect_DeleteFirst(reqUser, idp) ==
  IF DeleteTagStatus(reqUser, idp) \in {200, 400}
  THEN [FileStore EXCEPT !.tags = {t \in @ : ~IntEqText(t.id, idp)}]
  ELSE FileStore

DeleteTagEffect(reqUser, idp) ==
  IF DeleteTagStatus(reqUser, idp) = 200
  THEN [FileStore EXCEPT !.tags = {t \in @ : ~IntEqText(t.id, idp)}]
  ELSE FileStore

DeleteTag(reqUser, idp) ==
  /\ SetFileStore(DeleteTagEffect(reqUser, idp))
  /\ UNCHANGED userVars

\* The tag routes together with the file requests that link and unlink
\* tags, with default name and description.
NextTags ==
  \/ \E c \in TagSpecCallers, tl \in TagLists :
       Upload(c, <<>>, <<>>, tl, TRUE) /\ tagSeq' <= MaxTagId
  \/ \E c \in TagSpecCallers, idp \in FileIdParams, tl \in TagLists :
       UpdateFile(c, idp, <<>>, <<>>, tl) /\ tagSeq' <= MaxTagId
  \/ \E c \in TagSpecCallers, idp \in FileIdParams : DeleteFile(c, idp, FALSE)
  \/ \E c \in FileCallers : ListTags(c)
  \/ \E c \in FileCallers, n \in TagNameInputs : CreateTag(c, n)
  \/ \E c \in FileCallers, idp \in TagIdParams, n \in TagNameInputs :
       RenameTag(c, idp, n)
  \/ \E c \in FileCallers, idp \in TagIdParams : DeleteTag(c, idp)

SpecTags == InitStore /\ [][NextTags]_vars

(***************************************************************************)
(* Accounts and their files together: the callers of the upload and of the *)
(* user deletion are the holders of issued tokens.                         *)
(***************************************************************************)
NextUserFiles ==
  \/ CreateAdminScript
  \/ \E em \in EmailInputs, pw \in PasswordInputs : Login(em, pw)
  \/ \E t \in tokens : TokenExpires(t)
  \/ \E un \in UsernameInputs, em \in EmailInputs, pw \in PasswordInputs :
       Register(un, em, pw)
  \/ \E c \in tokens : Upload(c, <<>>, <<>>, <<>>, TRUE)
  \/ \E c \in tokens, idp \in FileIdParams : DeleteFile(c, idp, FALSE)
  \/ \E c \in tokens, idp \in UserIdParams : DeleteUser(c, idp)

SpecUserFiles == InitStore /\ [][NextUserFiles]_vars

(***************************************************************************)
(* Requests followed one store call at a time.  The connection is in       *)
(* sqlite3's default mode, so a statement of one request may run between   *)
(* any two statements of another; a step is one statement together with    *)
(* the callback that receives its result and issues the next statement.    *)
(* The requests followed are an admin's, whose level checks pass.          *)
(***************************************************************************)
ConcurrentCaller == [id |-> 1, level |-> "admin"]

\* Tag lists of the uploads and of the updates that are followed.
UploadTagLists == {<< <<"x">> >>, << <<"x">>, <<"y">> >>}

UpdateTagLists == {<< <<"x">> >>, << <<"y">> >>}

ConcurrentIdParams == {Itoa(1), Itoa(2)}

ConcurrentEmails == {"bob@example.com", "eve@example.com"}

NewRequest(op, pc) == [NoRequest EXCEPT !.op = op, !.pc = pc]

\* res.status(status).json(...): the request is over and the values its
\* callbacks had bound are dropped.
Answer(r, status) ==
  [r EXCEPT !.pc = "done", !.status = status, !.tagId = 0, !.index = 0,
            !.name = <<>>, !.description = <<>>]

\* console.error(err.message) and res.status(500).
Fail(r, message) == [Answer(r, 500) EXCEPT !.logged = message]

\* The outcome of a step: the request and the store after it.
Out(r, st) == [req |-> r, store |-> st]

\* addTagsToFile resolves at once for an empty list; the caller goes on
\* with its final SELECT.
EnterTagLoop(r) ==
  IF r.tagList = <<>> THEN [r EXCEPT !.pc = "respond"]
  ELSE [r EXCEPT !.pc = "lookup", !.index = 1]

\* processTag: SELECT id FROM tags WHERE name = ?
LookupTag(r, st) ==
  LET found == {t \in st.tags : t.name = r.tagList[r.index]}
  IN IF found # {}
     THEN Out([r EXCEPT !.tagId = (CHOOSE t \in found : TRUE).id, !.pc = "link"], st)
     ELSE Out([r EXCEPT !.pc = "insertTag"], st)

\* processTag: INSERT INTO tags (name) VALUES (?).  The UNIQUE constraint
\* fails when the name was inserted after the lookup; the promise is
\* rejected and the handler answers 500.
InsertTag(r, st) ==
  IF \E t \in st.tags : t.name = r.tagList[r.index]
  THEN Out(Fail(r, "SQLITE_CONSTRAINT"), st)
  ELSE Out([r EXCEPT !.tagId = st.tagSeq + 1, !.pc = "link"],
           [st EXCEPT !.tags = @ \cup {[id |-> st.tagSeq + 1,
                                         name |-> r.tagList[r.index]]},
                      !.tagSeq = @ + 1])

\* linkTagToFile: INSERT OR IGNORE INTO file_tags, then processTag(index + 1).
LinkTagToFile(r, st) ==
  Out(IF r.index >= Len(r.tagList) THEN [r EXCEPT !.pc = "respond"]
      ELSE [r EXCEPT !.index = @ + 1, !.pc = "lookup"],
      [st EXCEPT !.file_tags = @ \cup {<<r.fileId, r.tagId>>}])

\* The final SELECT of the file and getTagsForFile.  When the row is gone
\* the callback throws on file.file_path and no response is sent.
Respond(r, st, status) ==
  IF \E f \in st.files : f.id = r.fileId
  THEN Out(Answer(r, status), st)
  ELSE Out(Answer(r, 0), st)

\* POST /api/files: INSERT INTO files, then addTagsToFile(this.lastID, ...).
InsertFile(r, st) ==
  Out(EnterTagLoop([r EXCEPT !.fileId = st.fileSeq + 1]),
      [st EXCEPT
         !.files = @ \cup
           {[id |-> st.fileSeq + 1, name |-> OriginalName, description |-> <<>>,
             file_path |-> Itoa(st.fileSeq + 1), file_type |-> "application/pdf",
             size |-> 1, user_id |-> ConcurrentCaller.id, created_at |-> Timestamp]},
         !.fileSeq = @ + 1,
         !.blobs = @ \cup {Itoa(st.fileSeq + 1)}])

\* PUT and DELETE /api/files/:id: SELECT * FROM files WHERE id = ?
SelectFile(r, st, next) ==
  LET rows == {f \in st.files : IntEqText(f.id, r.idp)}
  IN IF rows = {} THEN Out(Answer(r, 404), st)
     ELSE LET file == CHOOSE f \in rows : TRUE
          IN Out([r EXCEPT !.fileId = file.id, !.name = file.name,
                           !.description = file.description, !.pc = next], st)

\* PUT: UPDATE files SET name = ?, description = ? WHERE id = ?, with the
\* values of the selected row for the fields the body leaves out.
UpdateFileRow(r, st) ==
  Out([r EXCEPT !.pc = "clear"],
      [st EXCEPT !.files = {IF f.id = r.fileId
                            THEN [f EXCEPT !.name = r.name,
                                           !.description = r.description]
                            ELSE f : f \in @}])

\* PUT: DELETE FROM file_tags WHERE file_id = ?, then addTagsToFile.
ClearFileTags(r, st) ==
  Out(EnterTagLoop(r), [st EXCEPT !.file_tags = {ft \in @ : ft[1] # r.fileId}])

\* DELETE: fs.unlink, DELETE FROM files, DELETE FROM file_tags.
UnlinkBlob(r, st) ==
  Out([r EXCEPT !.pc = "deleteRow"], [st EXCEPT !.blobs = @ \ {Itoa(r.fileId)}])

DeleteFileRow(r, st) ==
  Out([r EXCEPT !.pc = "deleteLinks"],
      [st EXCEPT !.files = {f \in @ : f.id # r.fileId}])

DeleteFileLinks(r, st) ==
  Out(Answer(r, 200), [st EXCEPT !.file_tags = {ft \in @ : ft[1] # r.fileId}])

\* DELETE /api/files/tags/:id: SELECT COUNT(*), then DELETE FROM tags.
CountTagUsage(r, st) ==
  IF \E ft \in st.file_tags : IntEqText(ft[2], r.idp)
  THEN Out(Answer(r, 400), st)
  ELSE Out([r EXCEPT !.pc = "deleteTag"], st)

DeleteTagRow(r, st) ==
  IF \E t \in st.tags : IntEqText(t.id, r.idp)
  THEN Out(Answer(r, 200), [st EXCEPT !.tags = {t \in @ : ~IntEqText(t.id, r.idp)}])
  ELSE Out(Answer(r, 404), st)

\* The next store call of a file or tag request.
FileStep(r, st) ==
  CASE r.pc = "insertFile" -> InsertFile(r, st)
    [] r.pc = "selectFile" ->
         SelectFile(r, st, IF r.op = "updateFile" THEN "updateRow" ELSE "unlink")
    [] r.pc = "updateRow" -> UpdateFileRow(r, st)
    [] r.pc = "clear" -> ClearFileTags(r, st)
    [] r.pc = "lookup" -> LookupTag(r, st)
    [] r.pc = "insertTag" -> InsertTag(r, st)
    [] r.pc = "link" -> LinkTagToFile(r, st)
    [] r.pc = "respond" -> Respond(r, st, IF r.op = "upload" THEN 201 ELSE 200)
    [] r.pc = "unlink" -> UnlinkBlob(r, st)
    [] r.pc = "deleteRow" -> DeleteFileRow(r, st)
    [] r.pc = "deleteLinks" -> DeleteFileLinks(r, st)
    [] r.pc = "count" -> CountTagUsage(r, st)
    [] r.pc = "deleteTag" -> DeleteTagRow(r, st)

FileOps == {"upload", "updateFile", "deleteFile", "deleteTag"}

UserOps == {"register", "updateUser"}

InFlight(s) == requests[s].pc # "done"

\* Slot 2 takes a request only beside one in slot 1.
Free(s) == requests[s].op = "none" /\ (s = 1 \/ requests[1].op # "none")

\* Room for the rows the requests in flight may still insert.
PendingFiles == Cardinality({s \in Slots : requests[s].pc = "insertFile"})

PendingTags(s) == IF InFlight(s) THEN Len(requests[s].tagList) ELSE 0

ConcurrentRoom(newFiles, newTags) ==
  /\ fileSeq + PendingFiles + newFiles <= MaxFileId
  /\ tagSeq + PendingTags(1) + PendingTags(2) + newTags <= MaxTagId

\* User requests and file requests touch disjoint tables; the model follows
\* the one kind from a store that the other kind has not written.
NoUserWork == userSeq = 0 /\ \A s \in Slots : requests[s].op \notin UserOps

NoFileWork ==
  fileSeq = 0 /\ tagSeq = 0 /\ \A s \in Slots : requests[s].op \notin FileOps

Start(s, r) ==
  /\ Free(s)
  /\ IF r.op \in FileOps THEN NoUserWork ELSE NoFileWork
  /\ requests' = [requests EXCEPT ![s] = r]
  /\ UNCHANGED <<userVars, fileTables, tagInput>>

StartUpload(s, tagList) ==
  /\ ConcurrentRoom(1, Len(tagList))
  /\ Start(s, [NewRequest("upload", "insertFile") EXCEPT !.tagList = tagList])

StartUpdateFile(s, idp, tagList) ==
  /\ ConcurrentRoom(0, Len(tagList))
  /\ Start(s, [NewRequest("updateFile", "selectFile") EXCEPT
                 !.idp = idp, !.tagList = tagList])

StartDeleteFile(s, idp) ==
  Start(s, [NewRequest("deleteFile", "selectFile") EXCEPT !.idp = idp])

StartDeleteTag(s, idp) ==
  Start(s, [NewRequest("deleteTag", "count") EXCEPT !.idp = idp])

StepFileRequest(s) ==
  /\ InFlight(s)
  /\ requests[s].op \in FileOps
  /\ LET o == FileStep(requests[s], FileStore)
     IN /\ WriteFileStore(o.store)
        /\ requests' = [requests EXCEPT ![s] = o.req]
  /\ UNCHANGED <<userVars, tagInput>>

\* StorageError with the rows that the request has written taken back.
StorageError_Rollback(s) ==
  /\ requests[s].pc \in {"lookup", "insertTag", "link"}
  /\ requests' = [requests EXCEPT ![s] = Fail(@, "SQLITE_IOERR")]
  /\ files' = {f \in files : f.id # requests[s].fileId}
  /\ file_tags' = {ft \in file_tags : ft[1] # requests[s].fileId}
  /\ UNCHANGED <<userVars, fileSeq, tags, tagSeq, blobs, tagInput>>

\* A statement of the processTag loop fails in the store (a disk error):
\* the promise is rejected and the handler answers 500.
StorageError(s) ==
  /\ requests[s].pc \in {"lookup", "insertTag", "link"}
  /\ requests' = [requests EXCEPT ![s] = Fail(@, "SQLITE_IOERR")]
  /\ UNCHANGED <<userVars, fileTables, tagInput>>

\* POST /api/auth/register: SELECT * FROM users WHERE email = ?
CheckEmail(r, us) ==
  IF \E u \in us.users : u.email = r.email THEN Out(Answer(r, 400), us)
  ELSE Out([r EXCEPT !.pc = "insertUser"], us)

\* RegisterInsert without the UNIQUE constraints of table users.
RegisterInsert_NoUnique(r, us) ==
  Out(Answer(r, 200),
      [users |-> us.users \cup {UserRow(us.userSeq + 1, r.username, r.email, "user")},
       userSeq |-> us.userSeq + 1])

\* INSERT INTO users (username, email, password): UNIQUE on username and on
\* email; the error callback answers 500.
RegisterInsert(r, us) ==
  IF \E u \in us.users : u.username = r.username \/ u.email = r.email
  THEN Out(Fail(r, "SQLITE_CONSTRAINT"), us)
  ELSE Out(Answer(r, 200),
           [users |-> us.users \cup
                        {UserRow(us.userSeq + 1, r.username, r.email, "user")},
            userSeq |-> us.userSeq + 1])

\* PUT /api/users/:id with an email in the body: SELECT * FROM users WHERE
\* id = ?, the conflict SELECT, then UPDATE users SET email = ? WHERE id = ?.
SelectUser(r, us) ==
  IF \E u \in us.users : IntEqText(u.id, r.idp)
  THEN Out([r EXCEPT !.pc = "checkConflict"], us)
  ELSE Out(Answer(r, 404), us)

CheckConflict(r, us) ==
  IF \E u \in us.users : u.email = r.email /\ ~IntEqText(u.id, r.idp)
  THEN Out(Answer(r, 400), us)
  ELSE Out([r EXCEPT !.pc = "updateUser"], us)

UpdateUserRow(r, us) ==
  IF /\ \E u \in us.users : IntEqText(u.id, r.idp)
     /\ \E u \in us.users : u.email = r.email /\ ~IntEqText(u.id, r.idp)
  THEN Out(Fail(r, "SQLITE_CONSTRAINT"), us)
  ELSE Out(Answer(r, 200),
           [us EXCEPT !.users = {IF IntEqText(u.id, r.idp)
                                 THEN [u EXCEPT !.email = r.email]
                                 ELSE u : u \in @}])

\* The next store call of a user request.
UserStep(r, us) ==
  CASE r.pc = "checkEmail" -> CheckEmail(r, us)
    [] r.pc = "insertUser" -> RegisterInsert(r, us)
    [] r.pc = "selectUser" -> SelectUser(r, us)
    [] r.pc = "checkConflict" -> CheckConflict(r, us)
    [] r.pc = "updateUser" -> UpdateUserRow(r, us)

PendingUsers ==
  Cardinality({s \in Slots : requests[s].op = "register" /\ InFlight(s)})

StartRegister(s, username, email) ==
  /\ Cardinality(users) + PendingUsers < MaxUsers
  /\ userSeq + PendingUsers + 1 \in FollowedUserIds
  /\ userSeq + PendingUsers < MaxUserId
  /\ Start(s, [NewRequest("register", "checkEmail") EXCEPT
                 !.username = username, !.email = email])

StartUpdateUser(s, idp, email) ==
  Start(s, [NewRequest("updateUser", "selectUser") EXCEPT
              !.idp = idp, !.email = email])

\* The token that registration signs is not followed here.
StepUserRequest(s) ==
  /\ InFlight(s)
  /\ requests[s].op \in UserOps
  /\ LET o == UserStep(requests[s], UserStore)
     IN /\ SetUserStore(o.store)
        /\ requests' = [requests EXCEPT ![s] = o.req]
  /\ UNCHANGED <<tokens, fileTables, tagInput>>

\* The requests come in batches of up to MaxRequests: when all of a batch
\* are over, their responses are delivered and the next batch may start.
Retire ==
  /\ requests[1].op # "none"
  /\ \A s \in Slots : ~InFlight(s)
  /\ requests' = [s \in Slots |-> NoRequest]
  /\ UNCHANGED <<userVars, fileTables, tagInput>>

NextConcurrent ==
  \/ \E s \in Slots, tl \in UploadTagLists : StartUpload(s, tl)
  \/ \E s \in Slots, idp \in ConcurrentIdParams, tl \in UpdateTagLists :
       StartUpdateFile(s, idp, tl)
  \/ \E s \in Slots, idp \in ConcurrentIdParams : StartDeleteFile(s, idp)
  \/ \E s \in Slots, idp \in ConcurrentIdParams : StartDeleteTag(s, idp)
  \/ \E s \in Slots, un \in Usernames, em \in ConcurrentEmails :
       StartRegister(s, un, em)
  \/ \E s \in Slots, idp \in ConcurrentIdParams :
       StartUpdateUser(s, idp, "eve@example.com")
  \/ \E s \in Slots : StepFileRequest(s)
  \/ \E s \in Slots : StepUserRequest(s)
  \/ \E s \in Slots : StorageError(s)
  \/ Retire

SpecConcurrent == InitStore /\ [][NextConcurrent]_vars

(***************************************************************************)
(* The user, file and tag requests together, sent by the holders of issued *)
(* tokens, with default name and description on the file requests.         *)
(***************************************************************************)
NextRequests ==
  \/ userSeq = 0 /\ CreateAdminScript
  \/ \E em \in Emails : Login(em, "secret")
  \/ \E t \in tokens : TokenExpires(t)
  \/ Register("bob", "bob@example.com", "secret")
  \/ \E c \in tokens : CreateUser(c, "bob", "bob@example.com", "secret", "viewer")
  \/ \E c \in tokens, idp \in {Itoa(1), Itoa(2)} :
       UpdateUser(c, idp, Undefined, "eve@example.com", Undefined)
  \/ \E c \in tokens, idp \in {Itoa(1), Itoa(2)} : DeleteUser(c, idp)
  \/ \E c \in tokens :
       Upload(c, <<>>, <<>>, << <<"x">>, <<"y">> >>, TRUE) /\ tagSeq' <= MaxTagId
  \/ \E c \in tokens, idp \in {Itoa(1), Itoa(2)} :
       UpdateFile(c, idp, <<>>, <<>>, <<>>)
  \/ \E c \in tokens, idp \in {Itoa(1), Itoa(2)} : DeleteFile(c, idp, FALSE)
  \/ \E c \in tokens, n \in {<<"x">>, <<"X">>} : CreateTag(c, n)
  \/ \E c \in tokens, idp \in TagIdParams : RenameTag(c, idp, <<"X">>)
  \/ \E c \in tokens, idp \in TagIdParams : DeleteTag(c, idp)

SpecRequests == InitStore /\ [][NextRequests]_vars

(***************************************************************************)
(* Properties of the files routes, checked under SpecFiles.                *)
(***************************************************************************)
Names(tagList) == {tagList[i] : i \in DOMAIN tagList}

LinksOf(st, fileId) == {ft \in st.file_tags : ft[1] = fileId}

LinkedNamesIn(st, fileId) ==
  {t.name : t \in {t \in st.tags : <<fileId, t.id>> \in st.file_tags}}

NoTagsQuery == TagsQuery(FALSE, FALSE, <<>>)

BodyIds(body) == {body[i].id : i \in DOMAIN body}

FilesOwnedBy(id) == {f \in files : f.user_id = id}

RoleScopedFiles(reqUser) ==
  IF reqUser.level = "user" THEN FilesOwnedBy(reqUser.id) ELSE files

LinkedTagNames(fileId) ==
  {t.name : t \in {t \in tags : <<fileId, t.id>> \in file_tags}}

\* The tag names a tags parameter asks for; none when absent or empty.
RequestedTagNames(tq) ==
  IF ~tq.present \/ tq.list = << <<>> >> THEN {}
  ELSE {tq.list[i] : i \in DOMAIN tq.list}

\* The file a path text designates belongs to somebody else.
OthersFile(reqUser, idp) ==
  \E f \in files : IntEqText(f.id, idp) /\ f.user_id # reqUser.id

ViewerHiddenFields == {"description", "file_type", "size", "user_id"}

\* C1: for a caller of role user and every search and tags value, list-files
\* succeeds and every record returned is a stored file whose user_id is the
\* caller's id; with neither parameter given the records are exactly the
\* caller's files.
C1_UserListsOnlyOwnFiles ==
  \A c \in FileCallers :
    c.level = "user" =>
      /\ \A s \in SearchInputs, tq \in TagsQueryInputs :
           /\ ListFilesStatus(c, s, tq) = 200
           /\ \A body \in {ListFilesBody(c, s, tq)} : \A i \in DOMAIN body :
                /\ body[i].user_id = c.id
                /\ body[i].id \in {f.id : f \in FilesOwnedBy(c.id)}
      /\ BodyIds(ListFilesBody(c, <<>>, NoTagsQuery)) = {f.id : f \in FilesOwnedBy(c.id)}
      /\ Len(ListFilesBody(c, <<>>, NoTagsQuery)) = Cardinality(FilesOwnedBy(c.id))

\* A user lists with a search that another user's file matches, and gets a
\* file of their own.
C1_Witness ==
  \E c \in FileCallers :
    /\ c.level = "user"
    /\ \E f \in files : f.user_id # c.id /\ f.description = <<"b">>
    /\ BodyIds(ListFilesBody(c, <<"b">>, NoTagsQuery)) # {}

\* C2: no record that list-files or get-file-by-id returns to a viewer has a
\* description, file_type, size or user_id property.
C2_ViewerRecordsAreMinimal ==
  \A c \in FileCallers :
    c.level = "viewer" =>
      /\ \A s \in SearchInputs, tq \in TagsQueryInputs :
           \A body \in {ListFilesBody(c, s, tq)} : \A i \in DOMAIN body :
             DOMAIN body[i] \cap ViewerHiddenFields = {}
      /\ \A idp \in FileIdParams :
           GetFileStatus(c, idp) = 200 =>
             DOMAIN GetFileBody(c, idp) \cap ViewerHiddenFields = {}

\* A viewer lists and gets a stored file that has a description.
C2_Witness ==
  \E c \in FileCallers, idp \in FileIdParams :
    /\ c.level = "viewer"
    /\ GetFileStatus(c, idp) = 200
    /\ \E f \in files : f.id = GetFileBody(c, idp).id /\ f.description # <<>>
    /\ GetFileBody(c, idp).id \in BodyIds(ListFilesBody(c, <<>>, NoTagsQuery))

\* C3: get-by-id, update and delete by a user on another user's file answer
\* 404, and update and delete leave files, file_tags, tags and the blobs as
\* they are.
C3_UserCannotTouchOthersFile ==
  \A c \in FileCallers, idp \in FileIdParams :
    (c.level = "user" /\ OthersFile(c, idp)) =>
      /\ GetFileStatus(c, idp) = 404
      /\ UpdateFileStatus(c, idp) = 404
      /\ DeleteFileStatus(c, idp) = 404
      /\ \A n \in NameInputs, d \in DescriptionInputs, tl \in TagLists :
           UpdateFileEffect(c, idp, n, d, tl) = FileStore
      /\ \A uf \in BOOLEAN : DeleteFileEffect(c, idp, uf) = FileStore

\* A user addresses another user's file, which has a tag and a blob.
C3_Witness ==
  \E c \in FileCallers, idp \in FileIdParams :
    /\ c.level = "user"
    /\ \E f \in files :
         /\ IntEqText(f.id, idp)
         /\ f.user_id # c.id
         /\ LinkedTagNames(f.id) # {}
         /\ f.file_path \in blobs
    /\ DeleteFileStatus(c, idp) = 404

\* C4: no request of a viewer creates, updates or deletes a file row: upload,
\* update and delete leave table files as it is.
C4_ViewerNeverChangesFiles ==
  \A c \in FileCallers :
    c.level = "viewer" =>
      /\ \A n \in NameInputs, d \in DescriptionInputs, tl \in TagLists,
            hasFile \in BOOLEAN :
           UploadEffect(c, n, d, tl, hasFile).files = files
      /\ \A idp \in FileIdParams :
           /\ \A n \in NameInputs, d \in DescriptionInputs, tl \in TagLists :
                UpdateFileEffect(c, idp, n, d, tl).files = files
           /\ \A uf \in BOOLEAN : DeleteFileEffect(c, idp, uf).files = files

\* C8: for a caller who is no viewer, list-files with requested tag names T
\* returns exactly the files it returns without a tags parameter whose linked
\* tag names include all of T, those being the role-scoped files when there
\* is no search; an absent or empty tags parameter filters nothing.
C8_TagFilterIsSuperset ==
  \A c \in FileCallers :
    c.level # "viewer" =>
      /\ BodyIds(ListFilesBody(c, <<>>, NoTagsQuery)) = {f.id : f \in RoleScopedFiles(c)}
      /\ \A s \in SearchInputs, tq \in TagsQueryInputs :
           /\ ListFilesStatus(c, s, tq) = 200
           /\ BodyIds(ListFilesBody(c, s, tq)) =
                {id \in BodyIds(ListFilesBody(c, s, NoTagsQuery)) :
                   RequestedTagNames(tq) \subseteq LinkedTagNames(id)}

\* Two tags are asked for; one file in scope has both and is returned,
\* another has only one of them and is left out.
C8_Witness ==
  \E c \in FileCallers :
    /\ c.level # "viewer"
    /\ \E f, g \in RoleScopedFiles(c) :
         /\ LinkedTagNames(f.id) = {<<"x">>, <<"y">>}
         /\ LinkedTagNames(g.id) = {<<"x">>}
         /\ BodyIds(ListFilesBody(c, <<>>, TagsQuery(TRUE, TRUE, << <<"x">>, <<"y">> >>)))
              = {f.id}

\* Is sub a substring of str, letter case aside?
Contains(str, sub) ==
  \E i \in 0..(Len(str) - Len(sub)) :
    ToLowerCase(SubSeq(str, i + 1, i + Len(sub))) = ToLowerCase(sub)

\* C9: for a caller who is no viewer and a search string, list-files returns
\* exactly the role-scoped files whose name or description contains the
\* search string, letter case aside.
C9_SearchIsSubstringWithinScope ==
  \A c \in FileCallers, s \in SearchInputs :
    (c.level # "viewer" /\ s # <<>>) =>
      BodyIds(ListFilesBody(c, s, NoTagsQuery)) =
        {f.id : f \in {f \in RoleScopedFiles(c) :
                         Contains(f.name, s) \/ Contains(f.description, s)}}

\* C10: for a viewer, list-files succeeds and returns all files, the same
\* records for every search and tags value.
C10_ViewerListIgnoresParameters ==
  \A c \in FileCallers :
    c.level = "viewer" =>
      \A s \in SearchInputs, tq \in TagsQueryInputs :
        /\ ListFilesStatus(c, s, tq) = 200
        /\ ListFilesBody(c, s, tq) = ListFilesBody(c, <<>>, NoTagsQuery)
        /\ BodyIds(ListFilesBody(c, s, tq)) = {f.id : f \in files}

\* A viewer lists with a search and a tag that a stored file does not match,
\* and still gets that file.
C10_Witness ==
  \E c \in FileCallers, f \in files :
    /\ c.level = "viewer"
    /\ ~Contains(f.name, <<"b">>)
    /\ ~Contains(f.description, <<"b">>)
    /\ LinkedTagNames(f.id) = {}
    /\ f.id \in BodyIds(ListFilesBody(c, <<"b">>, TagsQuery(TRUE, FALSE, << <<"x">> >>)))

\* C12: an update-file request that succeeds leaves the file linked to
\* exactly the names of its tag list, whatever it was linked to before, and
\* to nothing when the request carries no tag list.
C12_UpdateReplacesTags ==
  \A c \in FileCallers, idp \in FileIdParams :
    UpdateFileStatus(c, idp) = 200 =>
      \A n \in NameInputs, d \in DescriptionInputs, tl \in TagLists :
        \A f \in files :
          IntEqText(f.id, idp) =>
            LinkedNamesIn(UpdateFileEffect(c, idp, n, d, tl), f.id) = Names(tl)

\* The one file ever uploaded is linked to y alone, and tag x, which only a
\* link of that file can have created, is still in table tags.
C12_Witness ==
  /\ fileSeq = 1
  /\ \E f \in files : LinkedTagNames(f.id) = {<<"y">>}
  /\ \E t \in tags : t.name = <<"x">>

\* The caller is the owner of the file or an admin.
OwnerOrAdmin(reqUser, file) ==
  \/ reqUser.level = "admin"
  \/ reqUser.level = "user" /\ reqUser.id = file.user_id

\* C19: a delete-file request of the file's owner or of an admin succeeds and
\* removes the file's row and every file_tags row of the file, whether or not
\* the stored blob could be removed; the rows and the file_tags rows of every
\* other file stay as they were.
C19_DeleteFileRemovesRowAndLinks ==
  \A c \in FileCallers, idp \in FileIdParams, file \in files :
    (IntEqText(file.id, idp) /\ OwnerOrAdmin(c, file)) =>
      /\ DeleteFileStatus(c, idp) = 200
      /\ \A uf \in BOOLEAN :
           LET st == DeleteFileEffect(c, idp, uf)
           IN /\ \A f \in st.files : f.id # file.id
              /\ LinksOf(st, file.id) = {}
              /\ st.files = files \ {file}
              /\ \A f \in files \ {file} :
                   LinksOf(st, f.id) = LinksOf(FileStore, f.id)
              /\ uf => st.blobs = blobs

\* File 1 was deleted while its blob stayed on disk; file 2 is stored with a
\* tag, and a tag that no file is linked to is left in table tags.
C19_Witness ==
  /\ fileSeq = 2
  /\ {f.id : f \in files} = {2}
  /\ Itoa(1) \in blobs
  /\ LinkedTagNames(2) # {}
  /\ \E t \in tags : \A ft \in file_tags : ft[2] # t.id

\* An upload with a file creates one row, owned by the caller and linked to
\* the names of the tag list, each of which has a tag row, and answers with
\* those names; the rows stored before are kept.
UploadCreates ==
  \A c \in FileCallers, n \in NameInputs, tl \in TagLists :
    LET st == UploadEffect(c, n, <<>>, tl, TRUE)
        new == st.files \ files
    IN /\ UploadStatus(c, TRUE) = 201
       /\ Cardinality(new) = 1
       /\ files \subseteq st.files
       /\ \A f \in new :
            /\ f.user_id = c.id
            /\ f.id \notin {g.id : g \in files}
            /\ LinkedNamesIn(st, f.id) = Names(tl)
            /\ Cardinality(LinksOf(st, f.id)) = Cardinality(Names(tl))
       /\ Names(tl) \subseteq {t.name : t \in st.tags}
       /\ tags \subseteq st.tags
       /\ UploadBodyTags(c, n, <<>>, tl, TRUE) = Names(tl)

\* A step keeps user_id, file_path, file_type and size of every row of files
\* that it keeps.
OwnerAndBlobKept ==
  \A f \in files, g \in files' :
    f.id = g.id =>
      /\ g.user_id = f.user_id /\ g.file_path = f.file_path
      /\ g.file_type = f.file_type /\ g.size = f.size

\* C23: a successful upload by caller C with tag list T creates exactly one
\* file row with user_id = C.id, links it to exactly the names in T, creating
\* the tags that are missing, and returns those names; no later request
\* changes the user_id, file_path, file_type or size of a file.
C23_UploadCreatesOwnedTaggedFile ==
  []UploadCreates /\ [][OwnerAndBlobKept]_vars

\* The second file uploaded is stored for caller 2 with a name and a
\* description of its own and with tags x and y.
C23_Witness ==
  \E f \in files :
    /\ f.user_id = 2
    /\ LinkedTagNames(f.id) = {<<"x">>, <<"y">>}
    /\ f.description = <<"b">>
    /\ f.name = <<"a">>
    /\ fileSeq = 2

\* C24: an update-file request that succeeds leaves the file with the
\* submitted name and description where they are present and non-empty, and
\* with the name or description it had where the submitted one is absent or
\* empty.
C24_UpdateKeepsOrReplacesFields ==
  \A c \in FileCallers, idp \in FileIdParams :
    UpdateFileStatus(c, idp) = 200 =>
      \A n \in NameInputs, d \in DescriptionInputs, f \in files :
        IntEqText(f.id, idp) =>
          \E g \in UpdateFileEffect(c, idp, n, d, <<>>).files :
            /\ g.id = f.id
            /\ g.name = IF n # <<>> THEN n ELSE f.name
            /\ g.description = IF d # <<>> THEN d ELSE f.description

\* A stored file has a name and a description of its own, and its owner may
\* update it: an update without the two fields has something to keep.
C24_Witness ==
  \E c \in FileCallers, f \in files :
    /\ c.level = "user" /\ c.id = f.user_id
    /\ f.name = <<"a">> /\ f.description = <<"b">>
    /\ UpdateFileStatus(c, Itoa(f.id)) = 200
    /\ f \in UpdateFileEffect(c, Itoa(f.id), <<>>, <<>>, <<>>).files

(***************************************************************************)
(* Properties of the users routes, checked under SpecUsers.                *)
(***************************************************************************)
\* The token was issued for a row that still has that id and level.
TokenCurrent(reqUser) ==
  \E u \in users : u.id = reqUser.id /\ u.level = reqUser.level

\* C5: no request of a viewer changes a row of table users, the viewer's own
\* row included.
C5_ViewerNeverChangesUsers ==
  \A c \in tokens :
    (c.level = "viewer" /\ TokenCurrent(c)) =>
      /\ \A un \in UsernameInputs, em \in EmailInputs, pw \in PasswordInputs,
            lv \in LevelInputs :
           CreateUserEffect(c, un, em, pw, lv).users = users
      /\ \A idp \in UserIdParams :
           /\ \A un \in UsernameInputs, em \in EmailInputs, lv \in LevelInputs :
                UpdateUserEffect(c, idp, un, em, lv).users = users
           /\ DeleteUserEffect(c, idp).users = users

\* The rows of a users table that differ from the stored row of the same id.
ChangedUsers(after) == {v \in after : v \notin users}

\* C6: no request of a caller who is no admin, and no registration, changes
\* a level, creates an admin or deletes a user; an update by such a caller
\* changes at most the username and email of the caller's own row.
C6_NonAdminCannotEscalate ==
  /\ \A un \in UsernameInputs, em \in EmailInputs, pw \in PasswordInputs :
       /\ users \subseteq RegisterEffect(un, em, pw).users
       /\ \A v \in RegisterEffect(un, em, pw).users : v \notin users => v.level # "admin"
  /\ \A c \in tokens :
       (c.level # "admin" /\ TokenCurrent(c)) =>
         /\ \A un \in UsernameInputs, em \in EmailInputs, pw \in PasswordInputs,
               lv \in LevelInputs :
              CreateUserEffect(c, un, em, pw, lv).users = users
         /\ \A idp \in UserIdParams :
              /\ DeleteUserEffect(c, idp).users = users
              /\ \A un \in UsernameInputs, em \in EmailInputs, lv \in LevelInputs :
                   LET after == UpdateUserEffect(c, idp, un, em, lv).users
                   IN /\ {v.id : v \in after} = {u.id : u \in users}
                      /\ \A v \in ChangedUsers(after) :
                           /\ v.id = c.id
                           /\ \E u \in users :
                                v = [u EXCEPT !.username = v.username,
                                              !.email = v.email]

\* C7: a delete-user request that designates the caller's own row is
\* rejected and leaves that row in table users, whatever the caller's level.
C7_SelfDeleteAlwaysRejected ==
  \A c \in tokens, idp \in UserIdParams :
    (TokenCurrent(c) /\ IntEqText(c.id, idp)) =>
      /\ DeleteUserStatus(c, idp) \in {400, 403}
      /\ \E u \in DeleteUserEffect(c, idp).users : u.id = c.id

\* C29: a step of a user-management request that starts with a row of level
\* admin in table users and removes no row ends with a row of level admin
\* in the table.
C29_AnAdminRemains ==
  [][(/\ \E u \in users : u.level = "admin"
      /\ {u.id : u \in users} \subseteq {u.id : u \in users'}) =>
       \E u \in users' : u.level = "admin"]_vars

(***************************************************************************)
(* Properties of the user deletion, checked under SpecUserFiles.           *)
(***************************************************************************)
\* C20: when a step removes from table users the row of a user other than
\* the token holder, which only an admin's successful delete-user request
\* does, no row of table files has that user's id as its user_id after the
\* step.
C20_DeleteUserCascadesToFiles ==
  [][\A u \in users :
       (u.id \notin {v.id : v \in users'} /\ u.id \notin {c.id : c \in tokens}) =>
         \A f \in files' : f.user_id # u.id]_vars

(***************************************************************************)
(* Properties of all requests, checked under SpecRequests.                 *)
(***************************************************************************)
\* Validation, authorization, not-found and conflict answers.
ErrorStatuses == {400, 401, 403, 404, 409}

\* The four tables after a request that leaves the store as us and fs.
Tables(us, fs) == <<us.users, fs.files, fs.tags, fs.file_tags>>

Rejected(status, us, fs) ==
  status \in ErrorStatuses => Tables(us, fs) = Tables(UserStore, FileStore)

\* C21: a user, file or tag request that is answered with a validation,
\* conflict, not-found or authorization error leaves tables users, files,
\* tags and file_tags as they were.
C21_ErrorsLeaveTablesUnchanged ==
  /\ \A un \in UsernameInputs, em \in EmailInputs, pw \in PasswordInputs :
       Rejected(RegisterStatus(un, em, pw), RegisterEffect(un, em, pw), FileStore)
  /\ \A c \in tokens :
       /\ \A un \in UsernameInputs, em \in EmailInputs,
             pw \in PasswordInputs, lv \in LevelInputs :
            Rejected(CreateUserStatus(c, un, em, pw, lv),
                     CreateUserEffect(c, un, em, pw, lv), FileStore)
       /\ \A idp \in UserIdParams, un \in UsernameInputs,
             em \in EmailInputs, lv \in LevelInputs :
            Rejected(UpdateUserStatus(c, idp, un, em, lv),
                     UpdateUserEffect(c, idp, un, em, lv), FileStore)
       /\ \A idp \in UserIdParams :
            Rejected(DeleteUserStatus(c, idp), DeleteUserEffect(c, idp), FileStore)
       /\ \A tl \in TagLists, hasFile \in BOOLEAN :
            Rejected(UploadStatus(c, hasFile), UserStore,
                     UploadEffect(c, <<>>, <<>>, tl, hasFile))
       /\ \A idp \in FileIdParams, tl \in TagLists :
            Rejected(UpdateFileStatus(c, idp), UserStore,
                     UpdateFileEffect(c, idp, <<"a">>, <<"b">>, tl))
       /\ \A idp \in FileIdParams, uf \in BOOLEAN :
            Rejected(DeleteFileStatus(c, idp), UserStore, DeleteFileEffect(c, idp, uf))
       /\ \A n \in TagNameInputs :
            Rejected(CreateTagStatus(c, n), UserStore, CreateTagEffect(c, n))
       /\ \A idp \in TagIdParams, n \in TagNameInputs :
            Rejected(RenameTagStatus(c, idp, n), UserStore, RenameTagEffect(c, idp, n))
       /\ \A idp \in TagIdParams :
            Rejected(DeleteTagStatus(c, idp), UserStore, DeleteTagEffect(c, idp))

\* An admin holds a token while a request of each kind would be rejected:
\* a create-user conflict, a user that is not found, a file that is not
\* found beside one that is stored, a rename to the name of another tag, and
\* the deletion of a tag that a file is linked to.
C21_Witness ==
  \E c \in tokens :
    /\ c.level = "admin"
    /\ CreateUserStatus(c, "bob", "bob@example.com", "secret", "viewer") = 400
    /\ DeleteUserStatus(c, Itoa(MaxUserId)) = 404
    /\ files # {}
    /\ \E idp \in FileIdParams : UpdateFileStatus(c, idp) = 404
    /\ \E idp \in TagIdParams, n \in TagNameInputs : RenameTagStatus(c, idp, n) = 409
    /\ \E idp \in TagIdParams : DeleteTagStatus(c, idp) = 400

(***************************************************************************)
(* Properties of interleaved requests, checked under SpecConcurrent.       *)
(***************************************************************************)
\* C22: in every state, between any two store calls of the requests in
\* flight, no two rows of users have the same username or the same email,
\* no two rows of tags have the same name, and file_tags holds each
\* (file_id, tag_id) pair of integers once.
C22_UniqueKeys ==
  /\ \A u, v \in users : u # v => u.username # v.username /\ u.email # v.email
  /\ \A t, u \in tags : t # u => t.name # u.name
  /\ \A ft \in file_tags : ft[1] \in 1..MaxFileId /\ ft[2] \in 1..MaxTagId
  /\ Cardinality({ft[1] * (MaxTagId + 1) + ft[2] : ft \in file_tags})
       = Cardinality(file_tags)

\* Two registrations with one username and different emails have both
\* passed the email lookup before either inserted; one was answered 200
\* and the other 500, and one row was inserted.
C22_Witness ==
  /\ requests[1].op = "register" /\ requests[2].op = "register"
  /\ requests[1].username = requests[2].username
  /\ requests[1].email # requests[2].email
  /\ {requests[1].status, requests[2].status} = {200, 500}
  /\ Cardinality(users) = 1

\* The statements of addTagsToFile.
TagLoop == {"lookup", "insertTag", "link"}

\* C25: when a statement of the tag attachment of an upload fails after the
\* file row was inserted, the request is answered 500 and is over, so that
\* it issues no further statement, and the step leaves tables files, tags
\* and file_tags as they were: the file row and the tags and links written
\* so far stay.
C25_FailedAttachmentIsNotRolledBack ==
  [][\A s \in Slots :
       (/\ requests[s].op = "upload"
        /\ requests[s].pc \in TagLoop
        /\ requests'[s].pc \notin TagLoop \cup {"respond"}) =>
         /\ requests'[s].status = 500
         /\ requests'[s].pc = "done"
         /\ <<files', tags', file_tags'>> = <<files, tags, file_tags>>]_vars

\* An upload with tags x and y was answered 500 after it had inserted its
\* file row and tag x and linked them: the row, the tag and the link are
\* stored and nothing links the file to y.
C25_Witness ==
  \E s \in Slots :
    /\ requests[s].op = "upload"
    /\ requests[s].tagList = << <<"x">>, <<"y">> >>
    /\ requests[s].status = 500
    /\ \E f \in files : f.id = requests[s].fileId
    /\ LinkedTagNames(requests[s].fileId) = {<<"x">>}
    /\ \A o \in Slots : requests[o].op \in {"upload", "none"}

\* C26: when two update-file requests for one file have both been answered
\* 200, whatever the order in which their statements ran, the file is
\* linked to exactly the names of the tag list of one of them.
C26_OneFullTagSetWins ==
  (/\ requests[1].op = "updateFile" /\ requests[2].op = "updateFile"
   /\ requests[1].status = 200 /\ requests[2].status = 200
   /\ requests[1].fileId = requests[2].fileId) =>
    LinkedTagNames(requests[1].fileId)
      \in {Names(requests[1].tagList), Names(requests[2].tagList)}

\* C27: once the upload, update-file, delete-file and delete-tag requests
\* that ran interleaved are all over, every row of file_tags refers to a row
\* of files and to a row of tags.
C27_NoOrphanLinks ==
  (\A s \in Slots : ~InFlight(s)) =>
    \A ft \in file_tags :
      /\ \E f \in files : f.id = ft[1]
      /\ \E t \in tags : t.id = ft[2]

\* C28: when two uploads whose tag lists share a name have run interleaved
\* and are over, neither having met a disk error, both were answered 201,
\* both files are linked to a tag of that name, and one tag row has the
\* name: neither failed because the other inserted the tag first.
C28_RacingUploadsShareTheTag ==
  \A n \in {<<"x">>, <<"y">>} :
    (/\ \A s \in Slots :
          /\ requests[s].op = "upload" /\ ~InFlight(s)
          /\ n \in Names(requests[s].tagList)
          /\ requests[s].logged # "SQLITE_IOERR") =>
      /\ \A s \in Slots :
           /\ requests[s].status = 201
           /\ n \in LinkedTagNames(requests[s].fileId)
      /\ Cardinality({t \in tags : t.name = n}) = 1

(***************************************************************************)
(* Properties of addTagsToFile, checked under SpecAddTags.                 *)
(***************************************************************************)
\* C11: applying tag list T1 and then T2 to a file links it to exactly the
\* names it had together with those of T1 and T2 (T1 and T2 alone for a file
\* that had none), one file_tags row and one tags row for each name; the
\* links of other files stay, and applying T2 once more changes nothing.
C11_ApplyTagsIsUnion ==
  \A f \in files, t1 \in AddTagLists, t2 \in AddTagLists :
    LET s1 == addTagsToFile(f.id, t1, FileStore)
        s2 == addTagsToFile(f.id, t2, s1)
        names == LinkedTagNames(f.id) \cup Names(t1) \cup Names(t2)
    IN /\ LinkedNamesIn(s2, f.id) = names
       /\ Cardinality(LinksOf(s2, f.id)) = Cardinality(names)
       /\ \A t, u \in s2.tags : t.name = u.name => t = u
       /\ \A g \in files : g # f => LinksOf(s2, g.id) = LinksOf(FileStore, g.id)
       /\ addTagsToFile(f.id, t2, s2) = s2
       /\ addTagsToFile(f.id, t1, s2) = s2

\* Two lists with a name in common and a repeated name have been applied to
\* a file, another file carries one of the names.
C11_Witness ==
  \E f, g \in files :
    /\ f # g
    /\ LinkedTagNames(f.id) = {<<"x">>, <<"y">>}
    /\ LinkedTagNames(g.id) = {<<"x">>}
    /\ Cardinality(tags) = 2

(***************************************************************************)
(* Properties of the tag routes, checked under SpecTags.                   *)
(***************************************************************************)
TagsById(idp) == {t \in tags : IntEqText(t.id, idp)}

\* The file_tags rows that reference the tag a path text designates.
TagReferences(idp) == {ft \in file_tags : \E t \in TagsById(idp) : ft[2] = t.id}

\* C13: a delete-tag request of an admin for an existing tag removes the tag,
\* and nothing else, exactly when no file_tags row references it; when one
\* does, the request is rejected and the store is unchanged.
C13_DeleteTagIffUnused ==
  \A c \in FileCallers, idp \in TagIdParams :
    (c.level = "admin" /\ TagsById(idp) # {}) =>
      IF TagReferences(idp) = {}
      THEN /\ DeleteTagStatus(c, idp) = 200
           /\ DeleteTagEffect(c, idp) = [FileStore EXCEPT !.tags = @ \ TagsById(idp)]
      ELSE /\ DeleteTagStatus(c, idp) = 400
           /\ DeleteTagEffect(c, idp) = FileStore

\* Of two existing tags one is linked to a file and its deletion is refused,
\* the other is linked to none and its deletion is accepted.
C13_Witness ==
  \E c \in FileCallers, i, j \in TagIdParams :
    /\ c.level = "admin"
    /\ TagsById(i) # {} /\ TagReferences(i) # {} /\ DeleteTagStatus(c, i) = 400
    /\ TagsById(j) # {} /\ TagReferences(j) = {} /\ DeleteTagStatus(c, j) = 200

\* Is the name empty or made of spaces only?
IsBlank(name) == \A i \in DOMAIN name : name[i] = " "

\* C14: a create-tag request of an admin with an empty or blank name is
\* rejected with a validation error and adds no row to table tags.
C14_BlankTagNameRejected ==
  \A c \in FileCallers, n \in TagNameInputs :
    (c.level = "admin" /\ IsBlank(n)) =>
      /\ CreateTagStatus(c, n) = 400
      /\ CreateTagEffect(c, n).tags = tags

\* C15: a create-tag request of an admin is rejected, table tags unchanged,
\* when a tag has the requested name, letter case aside; a tag created has
\* no file_tags row.
C15_CreateTagCaseInsensitiveDuplicate ==
  \A c \in FileCallers, n \in TagNameInputs :
    c.level = "admin" =>
      /\ (\E t \in tags : ToLowerCase(t.name) = ToLowerCase(n)) =>
           /\ CreateTagStatus(c, n) \in {400, 409}
           /\ CreateTagEffect(c, n).tags = tags
      /\ CreateTagStatus(c, n) = 201 =>
           \A t \in CreateTagEffect(c, n).tags \ tags :
             ~\E ft \in CreateTagEffect(c, n).file_tags : ft[2] = t.id

\* C16: a rename-tag request of an admin with a name is rejected, the store
\* unchanged, when another tag has that name; it answers 404, the store
\* unchanged, when no tag has the target id; when it succeeds the target's
\* name is the only thing that changes, file_tags included.
C16_RenameTag ==
  \A c \in FileCallers, idp \in TagIdParams, n \in TagNameInputs :
    (c.level = "admin" /\ n # <<>>) =>
      /\ (\E t \in tags \ TagsById(idp) : t.name = n) =>
           /\ RenameTagStatus(c, idp, n) \in {404, 409}
           /\ RenameTagEffect(c, idp, n) = FileStore
      /\ (TagsById(idp) # {} /\ \E t \in tags \ TagsById(idp) : t.name = n) =>
           RenameTagStatus(c, idp, n) = 409
      /\ TagsById(idp) = {} =>
           /\ RenameTagStatus(c, idp, n) = 404
           /\ RenameTagEffect(c, idp, n) = FileStore
      /\ RenameTagStatus(c, idp, n) = 200 =>
           RenameTagEffect(c, idp, n) =
             [FileStore EXCEPT
                !.tags = (@ \ TagsById(idp)) \cup
                           {[id |-> t.id, name |-> n] : t \in TagsById(idp)}]

\* Two tags exist and one is linked to a file: renaming the linked one to
\* the other's name is refused, renaming it to a new name is accepted.
C16_Witness ==
  \E c \in FileCallers, idp \in TagIdParams :
    /\ c.level = "admin"
    /\ TagReferences(idp) # {}
    /\ \E n \in TagNameInputs : RenameTagStatus(c, idp, n) = 409
    /\ \E n \in TagNameInputs :
         /\ RenameTagStatus(c, idp, n) = 200
         /\ \A t \in tags : t.name # n

\* C17: create-tag, rename-tag and delete-tag requests of a caller who is no
\* admin answer 403 and leave tags and file_tags, and the rest of the store,
\* unchanged.
C17_TagMutationsAdminOnly ==
  \A c \in FileCallers :
    c.level # "admin" =>
      /\ \A n \in TagNameInputs :
           CreateTagStatus(c, n) = 403 /\ CreateTagEffect(c, n) = FileStore
      /\ \A idp \in TagIdParams :
           /\ DeleteTagStatus(c, idp) = 403 /\ DeleteTagEffect(c, idp) = FileStore
           /\ \A n \in TagNameInputs :
                /\ RenameTagStatus(c, idp, n) = 403
                /\ RenameTagEffect(c, idp, n) = FileStore

\* A caller who is no admin addresses a tag that no file uses, with a name
\* that no tag has: an admin's requests of the three kinds would succeed.
C17_Witness ==
  \E c \in FileCallers, a \in FileCallers, idp \in TagIdParams, n \in TagNameInputs :
    /\ c.level # "admin" /\ a.level = "admin"
    /\ CreateTagStatus(a, n) = 201
    /\ RenameTagStatus(a, idp, n) = 200
    /\ DeleteTagStatus(a, idp) = 200
    /\ DeleteTagStatus(c, idp) = 403

\* C18: the list of tags with their usage counts is answered to admins only;
\* a user's or a viewer's request is rejected and is not answered with the
\* rows of table tags.
C18_ListTagsAdminOnly ==
  \A c \in FileCallers :
    c.level # "admin" =>
      /\ ListTagsStatus(c) \in {401, 403}
      /\ {t.id : t \in ListTagsBody(c)} # {t.id : t \in tags} \/ tags = {}

(***************************************************************************)
(* The tag field of the file form (src/src/TagInput.tsx), mounted by the   *)
(* form as <TagInput value={tags} onChange={setTags} allTags={allTags}/>.  *)
(* One action is one DOM event: its handler runs on the state of the last  *)
(* render, the state updates it queued are applied, the component renders  *)
(* and its effects run.  highlightedIndex counts from 0 as in the source.  *)
(***************************************************************************)

\* allTags prop: the tag names the form offers.
AllTags == << <<"x">>, <<"x", "b">>, <<"Y">> >>

\* Texts a user leaves in the input box.
InputTexts == {<<>>, <<"x">>, <<"y">>, <<"b">>, <<"z", " ">>}

Keys == {"ArrowDown", "ArrowUp", "Enter", ",", "Escape", "Backspace", "Tab"}

\* What reading an array outside its indices yields.
UndefinedTag == <<Undefined>>

\* Array.prototype.includes.
InSeq(e, s) == \E i \in DOMAIN s : s[i] = e

\* String.prototype.startsWith and String.prototype.includes.
StartsWith(s, p) == Len(p) <= Len(s) /\ SubSeq(s, 1, Len(p)) = p

Includes(s, p) ==
  \E i \in 0..(Len(s) - Len(p)) : SubSeq(s, i + 1, i + Len(p)) = p

\* String.prototype.trim.
RECURSIVE TrimEnd(_)
TrimEnd(s) ==
  IF s # <<>> /\ s[Len(s)] = " " THEN TrimEnd(SubSeq(s, 1, Len(s) - 1)) ELSE s

Trim(s) == TrimEnd(SubSeq(s, SkipWs(s, 1), Len(s)))

\* Array.prototype.slice(0, n).
Slice(s, n) == SubSeq(s, 1, IF Len(s) < n THEN Len(s) ELSE n)

MaxSuggestions == 8

\* allTags.filter((tag) => !safeValue.includes(tag))
Available(value) == SelectSeq(AllTags, LAMBDA tag : ~InSeq(tag, value))

\* suggestions[i]
SuggestionAt(ti, i) ==
  IF 0 <= i /\ i < Len(ti.suggestions) THEN ti.suggestions[i + 1]
  ELSE UndefinedTag

\* The dropdown and its trailing 'Add "inputValue"' item are in the DOM.
ListShown(ti) == ti.isFocused /\ ti.suggestions # <<>>

AddItemShown(ti) ==
  ListShown(ti) /\ ti.inputValue # <<>> /\ ~InSeq(ti.inputValue, ti.suggestions)

\* The effect that shows the initial suggestions.  Its condition reads only
\* its dependencies, so running it after every render changes nothing.
RunEffects(ti) ==
  IF ti.isFocused /\ ti.suggestions = <<>> /\ AllTags # <<>>
  THEN [ti EXCEPT !.suggestions = Available(ti.value)]
  ELSE ti

handleInputChange(ti, currentInput) ==
  LET lower == ToLowerCase(currentInput)
      exactStartMatches ==
        SelectSeq(AllTags, LAMBDA tag :
          StartsWith(ToLowerCase(tag), lower) /\ ~InSeq(tag, ti.value))
      includesMatches ==
        SelectSeq(AllTags, LAMBDA tag :
          /\ ~StartsWith(ToLowerCase(tag), lower)
          /\ Includes(ToLowerCase(tag), lower)
          /\ ~InSeq(tag, ti.value))
  IN [ti EXCEPT
        !.inputValue = currentInput,
        !.highlightedIndex = -1,
        !.suggestions =
          IF currentInput # <<>>
          THEN Slice(exactStartMatches \o includesMatches, MaxSuggestions)
          ELSE Available(ti.value)]

\* addTag(tag).  tag.trim() on undefined is a TypeError that ends the event
\* handler; no maxTags is passed and allowDuplicates keeps its default.
addTag(ti, tag) ==
  IF tag = UndefinedTag THEN [ti EXCEPT !.threw = TRUE]
  ELSE
    LET trimmedTag == Trim(tag)
    IN IF trimmedTag = <<>> THEN ti
       ELSE IF InSeq(trimmedTag, ti.value)
       THEN [ti EXCEPT !.inputValue = <<>>, !.suggestions = <<>>]
       ELSE [ti EXCEPT !.value = Append(@, trimmedTag),
                       !.inputValue = <<>>, !.suggestions = <<>>]

removeTag(ti, tagToRemove) ==
  [ti EXCEPT !.value = SelectSeq(@, LAMBDA tag : tag # tagToRemove)]

\* The two branches that add the highlighted suggestion; key records which
\* one the event took.
AddHighlighted(ti, key) ==
  LET t == addTag([ti EXCEPT !.key = key],
                  SuggestionAt(ti, ti.highlightedIndex))
  IN IF t.threw THEN t ELSE [t EXCEPT !.highlightedIndex = -1]

\* handleKeyDown(e).  A Tab that no branch takes is not prevented and moves
\* the focus to the next field.
handleKeyDown(ti, key) ==
  LET n == Len(ti.suggestions)
      prev == ti.highlightedIndex
  IN
  IF key = "ArrowDown" /\ n > 0
  THEN [ti EXCEPT !.highlightedIndex = IF prev < n - 1 THEN prev + 1 ELSE 0]
  ELSE IF key = "ArrowUp" /\ n > 0
  THEN [ti EXCEPT !.highlightedIndex = IF prev > 0 THEN prev - 1 ELSE n - 1]
  ELSE IF key = "Enter"
  THEN IF prev >= 0 /\ prev < n THEN AddHighlighted(ti, key)
       ELSE IF ti.inputValue # <<>> THEN addTag(ti, ti.inputValue)
       ELSE ti
  ELSE IF key = ","
  THEN IF ti.inputValue # <<>> THEN addTag(ti, ti.inputValue) ELSE ti
  ELSE IF key = "Escape"
  THEN [ti EXCEPT !.suggestions = <<>>, !.highlightedIndex = -1,
                  !.domFocus = FALSE]
  ELSE IF key = "Backspace" /\ ti.inputValue = <<>>
  THEN IF Len(ti.value) > 0 THEN removeTag(ti, ti.value[Len(ti.value)])
       ELSE ti
  ELSE IF key = "Tab" /\ prev >= 0
  THEN AddHighlighted(ti, key)
  ELSE IF key = "Tab"
  THEN [ti EXCEPT !.domFocus = FALSE]
  ELSE ti

\* onFocus of the input.
onFocus(ti) ==
  [ti EXCEPT
     !.isFocused = TRUE,
     !.domFocus = TRUE,
     !.suggestions =
       IF @ = <<>> /\ AllTags # <<>>
       THEN Slice(Available(ti.value), MaxSuggestions)
       ELSE @]

\* handleSuggestionClick(tag): addTag, then inputRef.current.focus(), whose
\* onFocus still sees the suggestions of the render that showed the list.
handleSuggestionClick(ti, tag) ==
  LET t == addTag(ti, tag)
  IN IF t.threw \/ ti.domFocus THEN t
     ELSE [t EXCEPT !.isFocused = TRUE, !.domFocus = TRUE]

\* handleClickOutside: a mousedown outside the container, which also takes
\* the focus from the input.
handleClickOutside(ti) ==
  [ti EXCEPT !.isFocused = FALSE, !.suggestions = <<>>, !.domFocus = FALSE]

\* The component as an event finds it.
Mounted == [tagInput EXCEPT !.threw = FALSE, !.key = ""]

\* The form's setTags stores the new value, the component renders and its
\* effects run.
Render(ti) ==
  /\ Len(ti.value) <= MaxValueTags
  /\ tagInput' = RunEffects(ti)
  /\ UNCHANGED <<userVars, fileTables, requests>>

FocusInput ==
  /\ ~tagInput.domFocus
  /\ Render(onFocus(Mounted))

Type(text) ==
  /\ tagInput.domFocus
  /\ text # tagInput.inputValue
  /\ Render(handleInputChange(Mounted, text))

KeyDown(key) ==
  /\ tagInput.domFocus
  /\ Render(handleKeyDown(Mounted, key))

MouseEnterSuggestion(index) ==
  /\ ListShown(tagInput)
  /\ index < Len(tagInput.suggestions)
  /\ Render([Mounted EXCEPT !.highlightedIndex = index])

MouseEnterAddItem ==
  /\ AddItemShown(tagInput)
  /\ Render([Mounted EXCEPT !.highlightedIndex = Len(tagInput.suggestions)])

MouseDownSuggestion(index) ==
  /\ ListShown(tagInput)
  /\ index < Len(tagInput.suggestions)
  /\ Render(handleSuggestionClick(Mounted, tagInput.suggestions[index + 1]))

MouseDownAddItem ==
  /\ AddItemShown(tagInput)
  /\ Render(addTag(Mounted, tagInput.inputValue))

\* The remove button of a selected tag; whether a clicked button takes the
\* focus from the input depends on the browser.
ClickRemove(index, keepsFocus) ==
  /\ index \in DOMAIN tagInput.value
  /\ Render([removeTag(Mounted, tagInput.value[index])
               EXCEPT !.domFocus = @ /\ keepsFocus])

MouseDownOutside ==
  /\ Render(handleClickOutside(Mounted))

NextTagInput ==
  \/ FocusInput
  \/ \E text \in InputTexts : Type(text)
  \/ \E key \in Keys : KeyDown(key)
  \/ \E index \in 0..(Len(AllTags) - 1) : MouseEnterSuggestion(index)
  \/ MouseEnterAddItem
  \/ \E index \in 0..(Len(AllTags) - 1) : MouseDownSuggestion(index)
  \/ MouseDownAddItem
  \/ \E index \in 1..MaxValueTags, keepsFocus \in BOOLEAN :
       ClickRemove(index, keepsFocus)
  \/ MouseDownOutside

SpecTagInput == InitStore /\ [][NextTagInput]_vars

(***************************************************************************)
(* Properties of the tag field, checked under SpecTagInput                 *)
(***************************************************************************)

\* C30: whenever the Tab or the Enter key adds the highlighted suggestion,
\* highlightedIndex is an index of the suggestions list
\* (0 <= highlightedIndex < suggestions.length), so that the tag handed to
\* addTag is a defined string and the handler does not end in a TypeError.
C30_HighlightedSuggestionIsDefined ==
  tagInput.key \in {"Tab", "Enter"} => ~tagInput.threw

====
